---- MODULE Spec2Model ----
(***************************************************************************)
(* Protocol engine of baofeng-webusb: the BF-888 driver (Model-A, both      *)
(* revisions found in src/src/drivers/bf888.ts), the KT-8900 driver         *)
(* (Model-B), driven over an abstract transport by a caller that invokes    *)
(* connect / readCodeplug / writeCodeplug / disconnect one after another.   *)
(* One action is one step of a handshake or one iteration of a block loop.   *)
(* The radio is the environment: it answers each frame the driver writes    *)
(* with one of a small set of replies, which the transport keeps in rx      *)
(* until they are read.                                                     *)
(***************************************************************************)
EXTENDS Integers, Sequences, FiniteSets, TLC

VARIABLES
  model,              \* "A" (BF888Driver) or "B" (KT8900Driver)
  rev,                \* BF888Driver revision: 1 = bf888.ts:22-179, 2 = bf888.ts:237-376
  dryRun,             \* options.dryRun
  checksumValidators, \* options.checksumValidators: does validator i accept the image
  connected,          \* this.connected
  isOpen,             \* the transport is open
  rx,                 \* bytes the radio sent that no readExactly returned yet
  devMem,             \* the radio's memory
  pc,                 \* the driver's position ("idle": no operation running)
  op,                 \* the operation running, or the last one run
  result,             \* "none" while running, then "ok" or "error" (the error is err)
  calls,              \* transport calls of the step taken last, in order
  ioDone,             \* the current operation has made a transport call
  frames,             \* the block frames written in this operation, in order, as runs
  magics,             \* MAGIC sequences written by identifyWithRetry (0 outside it and its return)
  tried,              \* the errors of identifyWithRetry's failed attempts, in order
  opsDone,            \* operations started so far
  addr,               \* loop variable addr of readCodeplug / writeCodeplug
  rangeIx,            \* index in WRITE_RANGES of writeCodeplug's loop variable range
  buffer,             \* readCodeplug's buffer
  data,               \* writeCodeplug's argument: [pat, len], the image Image(data)
  seen,               \* seen.length of the last readUntilAck of this operation
  err,                \* the message of the error thrown last in this operation
  validated,          \* indices of the checksum validators invoked by this operation
  logged,             \* addresses logged by the dry-run branch in this operation
  returned,           \* the image readCodeplug returned (<<>> when it threw)
  clean,              \* the radio and the transport followed the protocol in this operation
  dev,                \* the radio or the transport deviated from it in this operation
  devOps,             \* operations so far in which they deviated
  attempt,            \* identifyWithRetry's attempt (0 outside it and its return)
  upload,             \* identifyWithRetry's upload argument
  delays,             \* delay(500) calls of identifyWithRetry (0 outside it and its return)
  handshake,          \* BF888Driver.connect's transport calls that succeeded: now, of the
                      \* connect that is running; done, of the connect that set connected
  fn,                 \* the scenario function called ("none" before the call)
  fnArgs,             \* its arguments
  fnOut,              \* what it returned or threw
  backend,            \* the fields of a NodeSerialBackend or a WebSerialBackend
  port,               \* its SerialPort: is it open, the bytes it holds for the backend
                      \* (wire), the reads of its stream that are requested (reads)
  tcall,              \* the call made last on the backend: its locals and its result, with
                      \* the calls made (k) and the reads that timed out (timeouts) so far
  sent,               \* bytes the radio sent to the port so far
  delivered,          \* the bytes the successful readExactly calls returned, in order
  plan,               \* what a scenario has still to do, in order (<<"any">>: the caller
                      \* runs no scenario and calls the driver as it likes)
  original,           \* the image the scenario's first session returned (<<>> before)
  readBack,           \* the image its last session returned (<<>> before)
  scenario            \* the scenario: its name, the sessions it started, the image it
                      \* synthesized, and whether a session failed, whether it
                      \* reported that the verification passed

\* the driver, its caller, the transport it is bound to and the radio
driverVars ==
  <<model, rev, dryRun, checksumValidators, connected, isOpen, rx, devMem,
    pc, op, result, calls, ioDone, frames, magics, tried, opsDone, addr, rangeIx, buffer, data, seen, err,
    validated, logged, returned, clean, dev, devOps, attempt, upload, delays, handshake>>

\* a call of a scenario function
callVars == <<fn, fnArgs, fnOut>>

\* what no step of a driver touches
\* a transport with its port
transportVars == <<backend, port, tcall, sent, delivered>>

\* a scenario
scenarioVars == <<plan, original, readBack, scenario>>

aside == <<callVars, transportVars>>

vars == <<driverVars, aside, scenarioVars>>

-----------------------------------------------------------------------------
(* Bounds of the model *)

\* operations a caller starts in one behaviour
MaxOps == 3

\* operations of one behaviour in which the radio or the transport deviates
\* from the protocol (a reply that is not the protocol's, a failed call)
MaxFaultyOps == 1

-----------------------------------------------------------------------------
(* Constants of the drivers *)

ACK == 6
ACK_ALT == 5
BF888_BLOCK_SIZE == 8
BF888_MEM_SIZE == 992
IDENT_PREFIX == <<80, 51, 49, 48, 55>>

\* WRITE_RANGES with the second range one block short
WRITE_RANGES_Short ==
  << [start |-> 0, end |-> 272],
     [start |-> 688, end |-> 696],
     [start |-> 896, end |-> 992] >>

\* WRITE_RANGES with a first range that ends before the last channel record
WRITE_RANGES_15Channels ==
  << [start |-> 0, end |-> 256],
     [start |-> 688, end |-> 704],
     [start |-> 896, end |-> 992] >>

\* WRITE_RANGES (bf888.ts:8-12)
WRITE_RANGES ==
  << [start |-> 0, end |-> 272],
     [start |-> 688, end |-> 704],
     [start |-> 896, end |-> 992] >>

CMD_R == 82
CMD_W == 87
CMD_S == 83
CMD_X == 88

KT8900_MEM_SIZE == 16384
UPLOAD_MEM_SIZE == 12544
KT8900_BLOCK_SIZE == 64
TX_BLOCK_SIZE == 16
IDENT_LENGTH == 50
EXTRA_ID_ADDR == 15856
EXTRA_ID_LEN == 16
MAGIC == <<85, 32, 21, 9, 22, 69, 77, 2>>

\* 'M29154', 'M2C234', 'M2G1F4', 'M2G2F4', 'M2G304', 'M2G314', 'M2G424', 'M27184', 'M2C194'
FILE_IDS ==
  { <<77, 50, 57, 49, 53, 52>>, <<77, 50, 67, 50, 51, 52>>, <<77, 50, 71, 49, 70, 52>>,
    <<77, 50, 71, 50, 70, 52>>, <<77, 50, 71, 51, 48, 52>>, <<77, 50, 71, 51, 49, 52>>,
    <<77, 50, 71, 52, 50, 52>>, <<77, 50, 55, 49, 56, 52>>, <<77, 50, 67, 49, 57, 52>> }

\* const attempts = 3 (kt8900.ts:91)
attempts == 3

Min(a, b) == IF a < b THEN a ELSE b

\* Uint8Array.prototype.slice(from, to) on a 0-based array held as a sequence
slice(a, from, to) == SubSeq(a, Min(from, Len(a)) + 1, Min(to, Len(a)))

-----------------------------------------------------------------------------
(* Scenario functions (scenarios/bf888.ts, scenarios/kt8900.ts).  An image
   is here the sequence of its bytes. *)

CHANNEL_COUNT == 16
CHANNEL_SIZE == 16
CHANNEL_BASE == 16
RX_FREQ_OFFSET == 0
TX_FREQ_OFFSET == 4
RX_TONE_OFFSET == 8
TX_TONE_OFFSET == 10
FLAGS_OFFSET == 12
TRAILER_OFFSET == 13
BASE_FREQUENCY_HZ == 462000000
CHANNEL_STEP_HZ == 12500
MEM_SIZE == 992

\* UPLOAD_MEM_SIZE of scenarios/kt8900.ts
Scenario_UPLOAD_MEM_SIZE == 12544

\* a function returns value v, a function throws Error(message) whose
\* message carries the formatted value n
Returns(v) == [threw |-> FALSE, value |-> v]
Throws(message, n) == [threw |-> TRUE, message |-> message, n |-> n]

\* Number.prototype.toString(radix): the digits, most significant first
RECURSIVE toString(_, _)
toString(value, radix) ==
  IF value < radix THEN <<value>>
  ELSE Append(toString(value \div radix, radix), value % radix)

\* String.prototype.padStart(n, '0')
padStart(digits, n) ==
  IF Len(digits) >= n THEN digits ELSE [i \in 1..(n - Len(digits)) |-> 0] \o digits

\* encodeLbcdFrequency with the most significant pair of digits first
encodeLbcdFrequency_MostFirst(freqHz) ==
  LET value == (freqHz + 5) \div 10
      digits == padStart(toString(value, 10), 8)
      pair(i) == SubSeq(digits, 2 * i + 1, 2 * i + 2)
  IN  [i \in 1..4 |-> pair(i - 1)[1] * 16 + pair(i - 1)[2]]

\* encodeLbcdFrequency (scenarios/bf888.ts:111-124); Math.round(freqHz / 10)
\* of a natural number is (freqHz + 5) \div 10
encodeLbcdFrequency(freqHz) ==
  LET value == (freqHz + 5) \div 10
      digits == padStart(toString(value, 10), 8)
      pair(i) == SubSeq(digits, Len(digits) - 2 * (i + 1) + 1, Len(digits) - 2 * i)
  IN  [i \in 1..4 |-> pair(i - 1)[1] * 16 + pair(i - 1)[2]]

\* isEmptyChannel that looks at the receive tone and the transmit tone
isEmptyChannel_Tones(slot) ==
  slot[9] = 255 /\ slot[10] = 255 /\ slot[11] = 255 /\ slot[12] = 255

\* isEmptyChannel (scenarios/bf888.ts:107-109)
isEmptyChannel(slot) ==
  slot[1] = 255 /\ slot[2] = 255 /\ slot[3] = 255 /\ slot[4] = 255

\* const image = new Uint8Array(base) (scenarios/bf888.ts:68): a typed array
\* made from a typed array holds copies of its elements, so the assignments to
\* image leave base as it was
CopiesBase == TRUE

\* synthesizeFullCodeplug that keeps the flags byte each record had
synthesizeFullCodeplug_OwnFlags(base) ==
  IF Len(base) < MEM_SIZE
  THEN Throws("Unexpected codeplug length: N", Len(base))
  ELSE
    LET template == slice(base, CHANNEL_BASE, CHANNEL_BASE + CHANNEL_SIZE)
        templateEmpty == isEmptyChannel(template)
        flags == IF templateEmpty THEN 0 ELSE template[FLAGS_OFFSET + 1]
        trailer == IF templateEmpty THEN <<0, 0, 0>>
                   ELSE slice(template, TRAILER_OFFSET, TRAILER_OFFSET + 3)
        freqBytes(channel) ==
          encodeLbcdFrequency(BASE_FREQUENCY_HZ + channel * CHANNEL_STEP_HZ)
        stored(channel, o, old) ==
          IF o >= TRAILER_OFFSET /\ o < TRAILER_OFFSET + Len(trailer)
          THEN trailer[o - TRAILER_OFFSET + 1]
          ELSE IF o = FLAGS_OFFSET THEN (IF templateEmpty THEN 0 ELSE old)
          ELSE IF o \in {TX_TONE_OFFSET + 1, TX_TONE_OFFSET,
                         RX_TONE_OFFSET + 1, RX_TONE_OFFSET} THEN 255
          ELSE IF o >= TX_FREQ_OFFSET /\ o < TX_FREQ_OFFSET + 4
          THEN freqBytes(channel)[o - TX_FREQ_OFFSET + 1]
          ELSE IF o >= RX_FREQ_OFFSET /\ o < RX_FREQ_OFFSET + 4
          THEN freqBytes(channel)[o - RX_FREQ_OFFSET + 1]
          ELSE old
    IN  Returns([i \in 1..Len(base) |->
                   IF i - 1 >= CHANNEL_BASE
                        /\ i - 1 < CHANNEL_BASE + CHANNEL_COUNT * CHANNEL_SIZE
                   THEN stored((i - 1 - CHANNEL_BASE) \div CHANNEL_SIZE,
                               (i - 1 - CHANNEL_BASE) % CHANNEL_SIZE, base[i])
                   ELSE base[i]])

\* synthesizeFullCodeplug (scenarios/bf888.ts:63-94): byte o of the image is
\* what the last assignment to image[o] stored, base[o] when there is none
synthesizeFullCodeplug(base) ==
  IF Len(base) < MEM_SIZE
  THEN Throws("Unexpected codeplug length: N", Len(base))
  ELSE
    LET template == slice(base, CHANNEL_BASE, CHANNEL_BASE + CHANNEL_SIZE)
        templateEmpty == isEmptyChannel(template)
        flags == IF templateEmpty THEN 0 ELSE template[FLAGS_OFFSET + 1]
        trailer == IF templateEmpty THEN <<0, 0, 0>>
                   ELSE slice(template, TRAILER_OFFSET, TRAILER_OFFSET + 3)
        freqBytes(channel) ==
          encodeLbcdFrequency(BASE_FREQUENCY_HZ + channel * CHANNEL_STEP_HZ)
        stored(channel, o, old) ==
          IF o >= TRAILER_OFFSET /\ o < TRAILER_OFFSET + Len(trailer)
          THEN trailer[o - TRAILER_OFFSET + 1]
          ELSE IF o = FLAGS_OFFSET THEN flags
          ELSE IF o \in {TX_TONE_OFFSET + 1, TX_TONE_OFFSET,
                         RX_TONE_OFFSET + 1, RX_TONE_OFFSET} THEN 255
          ELSE IF o >= TX_FREQ_OFFSET /\ o < TX_FREQ_OFFSET + 4
          THEN freqBytes(channel)[o - TX_FREQ_OFFSET + 1]
          ELSE IF o >= RX_FREQ_OFFSET /\ o < RX_FREQ_OFFSET + 4
          THEN freqBytes(channel)[o - RX_FREQ_OFFSET + 1]
          ELSE old
    IN  Returns([i \in 1..Len(base) |->
                   IF i - 1 >= CHANNEL_BASE
                        /\ i - 1 < CHANNEL_BASE + CHANNEL_COUNT * CHANNEL_SIZE
                   THEN stored((i - 1 - CHANNEL_BASE) \div CHANNEL_SIZE,
                               (i - 1 - CHANNEL_BASE) % CHANNEL_SIZE, base[i])
                   ELSE base[i]])

-----------------------------------------------------------------------------
(* Memories and images *)

\* byte i of pattern k below 10, the contents the model fills memories and
\* images with; pattern 4 is all zeros, pattern 3 stands for bytes that are of
\* no other pattern
BasePatternByte(k, i) == IF k = 4 THEN 0 ELSE (i * 7 + (i \div 256) + k * 85) % 256

\* the patterns a scenario finds in the radio's memory
MemoryPatterns == {0, 1, 2}

\* synthesizeFullCodeplug of the BF-888 image of each of these patterns
Synthesized ==
  [k \in MemoryPatterns |->
     synthesizeFullCodeplug([i \in 1..MEM_SIZE |-> BasePatternByte(k, i - 1)]).value]

\* byte i of pattern k; pattern 10 + k is the image synthesized from pattern k
PatternByte(k, i) ==
  IF k >= 10 /\ i < MEM_SIZE THEN Synthesized[k - 10][i + 1]
  ELSE BasePatternByte(k % 10, i)

Patterns == {0, 1, 2, 4}

SynthesizedPatterns == {10 + k : k \in MemoryPatterns}

\* A Uint8Array (a buffer, the radio's memory) is held as runs <<[upto, pat], ...>>:
\* byte i, with i below upto and not below the run before's upto, is
\* PatternByte(pat, i).
PatternRuns(k, n) == << [upto |-> n, pat |-> k] >>

\* new Uint8Array(n)
Zeros(n) == PatternRuns(4, n)

MemLen(b) == IF b = <<>> THEN 0 ELSE b[Len(b)].upto

RunOf(b, i) == b[CHOOSE r \in 1..Len(b) : i < b[r].upto /\ (r = 1 \/ b[r - 1].upto <= i)]

ByteAt(b, i) == PatternByte(RunOf(b, i).pat, i)

\* the n bytes at [a, a + n)
MemBytes(b, a, n) == [j \in 1..n |-> ByteAt(b, a + j - 1)]

IsPattern(bytes, a, k) == \A j \in 1..Len(bytes) : bytes[j] = PatternByte(k, a + j - 1)

PatternOf(bytes, a) ==
  IF \E k \in Patterns : IsPattern(bytes, a, k)
  THEN CHOOSE k \in Patterns : IsPattern(bytes, a, k)
  ELSE IF \E k \in SynthesizedPatterns : IsPattern(bytes, a, k)
  THEN CHOOSE k \in SynthesizedPatterns : IsPattern(bytes, a, k)
  ELSE 3

\* b with the bytes at [a, a + n) made a run of pattern p
SetRun(b, a, n, p) ==
  LET e == Min(a + n, MemLen(b))
      k == Cardinality({r \in 1..Len(b) : (IF r = 1 THEN 0 ELSE b[r - 1].upto) < a})
      before == [r \in 1..k |-> [upto |-> Min(b[r].upto, a), pat |-> b[r].pat]]
      after == SelectSeq(b, LAMBDA run : run.upto > e)
      raw == before \o << [upto |-> e, pat |-> p] >> \o after
      keep == {r \in 1..Len(raw) : r = Len(raw) \/ raw[r].pat # raw[r + 1].pat}
  IN  IF n = 0 \/ a >= MemLen(b) THEN b
      ELSE [j \in 1..Cardinality(keep) |->
              raw[CHOOSE r \in keep : Cardinality({q \in keep : q < r}) = j - 1]]

\* b.set(bytes, a): the bytes are stored as one run when they are of one
\* pattern, half by half otherwise
RECURSIVE SetBytes(_, _, _)
SetBytes(b, bytes, a) ==
  IF Len(bytes) <= 1 \/ PatternOf(bytes, a) # 3
  THEN SetRun(b, a, Len(bytes), PatternOf(bytes, a))
  ELSE LET h == Len(bytes) \div 2
       IN  SetBytes(SetBytes(b, SubSeq(bytes, 1, h), a),
                    SubSeq(bytes, h + 1, Len(bytes)), a + h)

\* the image a caller passes to writeCodeplug: len bytes of pattern pat
Image(d) == [i \in 1..d.len |-> PatternByte(d.pat, i - 1)]

\* a slice of that length whose bytes are not the image's
ImageSlice_OtherBytes(d, from, to) ==
  [i \in 1..(Min(to, d.len) - Min(from, d.len)) |->
     PatternByte((d.pat + 1) % 3, Min(from, d.len) + i - 1)]

\* data.slice(from, to) of that image
ImageSlice(d, from, to) ==
  [i \in 1..(Min(to, d.len) - Min(from, d.len)) |-> PatternByte(d.pat, Min(from, d.len) + i - 1)]

NoImage == [pat |-> 0, len |-> 0]

-----------------------------------------------------------------------------
(* Error messages, as the characters the code puts in them (the parts that
   depend on run-time values are left out or written N) *)

\* thrown by ensureConnected: "Radio is not connected. Call connect() first."
MsgNotConnected ==
  << "R", "a", "d", "i", "o", " ", "i", "s", " ", "n", "o", "t", " ", "c",
     "o", "n", "n", "e", "c", "t", "e", "d", ".", " ", "C", "a", "l", "l",
     " ", "c", "o", "n", "n", "e", "c", "t", "(", ")", " ", "f", "i", "r",
     "s", "t", "." >>

\* thrown by writeCodeplug: "Codeplug is too small"
MsgTooSmall ==
  << "C", "o", "d", "e", "p", "l", "u", "g", " ", "i", "s", " ", "t", "o",
     "o", " ", "s", "m", "a", "l", "l" >>

\* thrown by BF888Driver.connect: "Unexpected ident string"
MsgUnexpectedIdent ==
  << "U", "n", "e", "x", "p", "e", "c", "t", "e", "d", " ", "i", "d", "e",
     "n", "t", " ", "s", "t", "r", "i", "n", "g" >>

\* thrown by BF888Driver.readBlock: "Unexpected block header"
MsgBlockHeader ==
  << "U", "n", "e", "x", "p", "e", "c", "t", "e", "d", " ", "b", "l", "o",
     "c", "k", " ", "h", "e", "a", "d", "e", "r" >>

\* thrown by writeBlock: "Invalid block size"
MsgInvalidBlock ==
  << "I", "n", "v", "a", "l", "i", "d", " ", "b", "l", "o", "c", "k", " ",
     "s", "i", "z", "e" >>

\* thrown by readUntilAck when readExactly throws: "Failed waiting for ACK: Timeout waiting for N bytes"
MsgAckFailed ==
  << "F", "a", "i", "l", "e", "d", " ", "w", "a", "i", "t", "i", "n", "g",
     " ", "f", "o", "r", " ", "A", "C", "K", ":", " ", "T", "i", "m", "e",
     "o", "u", "t", " ", "w", "a", "i", "t", "i", "n", "g", " ", "f", "o",
     "r", " ", "N", " ", "b", "y", "t", "e", "s" >>

\* thrown by readUntilAck when its deadline passed: "Timed out waiting for ACK"
MsgAckTimedOut ==
  << "T", "i", "m", "e", "d", " ", "o", "u", "t", " ", "w", "a", "i", "t",
     "i", "n", "g", " ", "f", "o", "r", " ", "A", "C", "K" >>

\* thrown by revision 2 after readByte: "Unexpected ACK"
MsgUnexpectedAck ==
  << "U", "n", "e", "x", "p", "e", "c", "t", "e", "d", " ", "A", "C", "K" >>

\* thrown by readExactly: "Timeout waiting for N bytes"
MsgTimeout ==
  << "T", "i", "m", "e", "o", "u", "t", " ", "w", "a", "i", "t", "i", "n",
     "g", " ", "f", "o", "r", " ", "N", " ", "b", "y", "t", "e", "s" >>

\* thrown by the transport's write: "WebSerial writer not available"
MsgWriteFailed ==
  << "W", "e", "b", "S", "e", "r", "i", "a", "l", " ", "w", "r", "i", "t",
     "e", "r", " ", "n", "o", "t", " ", "a", "v", "a", "i", "l", "a", "b",
     "l", "e" >>

\* thrown by the transport's open: "Failed to open serial port"
MsgOpenFailed ==
  << "F", "a", "i", "l", "e", "d", " ", "t", "o", " ", "o", "p", "e", "n",
     " ", "s", "e", "r", "i", "a", "l", " ", "p", "o", "r", "t" >>

\* thrown by the transport's close: "Port is not open"
MsgCloseFailed ==
  << "P", "o", "r", "t", " ", "i", "s", " ", "n", "o", "t", " ", "o", "p",
     "e", "n" >>

\* thrown by a checksum validator: "Checksum mismatch"
MsgChecksum ==
  << "C", "h", "e", "c", "k", "s", "u", "m", " ", "m", "i", "s", "m", "a",
     "t", "c", "h" >>

\* thrown by identifyOnce: "Bad ACK from radio"
MsgBadAckRadio ==
  << "B", "a", "d", " ", "A", "C", "K", " ", "f", "r", "o", "m", " ", "r",
     "a", "d", "i", "o" >>

\* thrown by identifyOnce: "Radio identification failed. Unsupported KT8900 ident."
MsgIdentFailed ==
  << "R", "a", "d", "i", "o", " ", "i", "d", "e", "n", "t", "i", "f", "i",
     "c", "a", "t", "i", "o", "n", " ", "f", "a", "i", "l", "e", "d", ".",
     " ", "U", "n", "s", "u", "p", "p", "o", "r", "t", "e", "d", " ", "K",
     "T", "8", "9", "0", "0", " ", "i", "d", "e", "n", "t", "." >>

\* thrown by identifyOnce: "Bad ACK for extra ID block"
MsgBadAckExtra ==
  << "B", "a", "d", " ", "A", "C", "K", " ", "f", "o", "r", " ", "e", "x",
     "t", "r", "a", " ", "I", "D", " ", "b", "l", "o", "c", "k" >>

\* thrown by identifyOnce: "Radio did not ACK upload mode"
MsgUploadAck ==
  << "R", "a", "d", "i", "o", " ", "d", "i", "d", " ", "n", "o", "t", " ",
     "A", "C", "K", " ", "u", "p", "l", "o", "a", "d", " ", "m", "o", "d",
     "e" >>

\* thrown by KT8900Driver.readBlock: "Bad ACK for read"
MsgBadAckRead ==
  << "B", "a", "d", " ", "A", "C", "K", " ", "f", "o", "r", " ", "r", "e",
     "a", "d" >>

\* thrown by KT8900Driver.readBlock: "Invalid header for block"
MsgInvalidHeader ==
  << "I", "n", "v", "a", "l", "i", "d", " ", "h", "e", "a", "d", "e", "r",
     " ", "f", "o", "r", " ", "b", "l", "o", "c", "k" >>

\* thrown by KT8900Driver.writeBlock: "Bad ACK writing block"
MsgBadAckWrite ==
  << "B", "a", "d", " ", "A", "C", "K", " ", "w", "r", "i", "t", "i", "n",
     "g", " ", "b", "l", "o", "c", "k" >>

-----------------------------------------------------------------------------
(* Frame primitives of the BF-888 driver *)

\* buildHeader without the address's high byte
buildHeader_NoHighByte(command, address, length) ==
  <<command, 0, address % 256, length % 256>>

\* buildHeader (bf888.ts:181-188)
buildHeader(command, address, length) ==
  << command, (address \div 256) % 256, address % 256, length % 256 >>

\* encodeCommand('PROGRAM'), encodeCommand('\x02PROGRAM'), encodeCommand('E')
CmdProgram == <<80, 82, 79, 71, 82, 65, 77>>
CmdModeProgram == <<2>> \o CmdProgram
CmdExit == <<69>>

\* Buffer.toString('ascii') clears the high bit of every byte
decodeAscii(bytes) == [i \in 1..Len(bytes) |-> bytes[i] % 128]

startsWith(s, prefix) ==
  Len(s) >= Len(prefix) /\ SubSeq(s, 1, Len(prefix)) = prefix

buffersEqual(a, b) ==
  Len(a) = Len(b) /\ \A i \in 1..Len(a) : a[i] = b[i]

\* writeCodeplug's nested loops (bf888.ts:92-93): the position (range r, address a)
\* at which the loop body runs next when the loops stand at (r, a), or done
RECURSIVE WritePos(_, _)
WritePos(r, a) ==
  IF r > Len(WRITE_RANGES) THEN [r |-> r, a |-> a, done |-> TRUE]
  ELSE IF a < WRITE_RANGES[r].end THEN [r |-> r, a |-> a, done |-> FALSE]
  ELSE IF r = Len(WRITE_RANGES) THEN [r |-> r + 1, a |-> a, done |-> TRUE]
  ELSE WritePos(r + 1, WRITE_RANGES[r + 1].start)

\* the loops started where the loops of the call before stood
WriteStart_Cursor == WritePos(rangeIx, addr)

WriteStart == WritePos(1, WRITE_RANGES[1].start)
WriteNext(r, a) == WritePos(r, a + BF888_BLOCK_SIZE)

\* the addresses the loops visit from position p on
RECURSIVE WriteAddrsFrom(_)
WriteAddrsFrom(p) ==
  IF p.done THEN <<>> ELSE <<p.a>> \o WriteAddrsFrom(WriteNext(p.r, p.a))

\* writeCodeplug's length check (bf888.ts:86)
TooSmall(d) == d.len < BF888_MEM_SIZE

\* validateChecksums that goes on after a validator threw
InvokedAll(validators, k) == [i \in 1..(Len(validators) - k + 1) |-> k + i - 1]

\* validateChecksums: the validators invoked, in order, up to the first that throws
RECURSIVE Invoked(_, _)
Invoked(validators, k) ==
  IF k > Len(validators) THEN <<>>
  ELSE IF validators[k] THEN <<k>> \o Invoked(validators, k + 1)
  ELSE <<k>>

validateChecksums(validators) == Invoked(validators, 1)

ChecksumsPass(validators) ==
  \A k \in 1..Len(validators) : validators[k]

-----------------------------------------------------------------------------
(* The radio and the transport *)

\* May the radio or the transport deviate: in the operation that is called now,
\* in the operation that is running?
MayDeviateNew == devOps < MaxFaultyOps
MayDeviate == dev \/ devOps < MaxFaultyOps

\* what open() and close() can do: succeed, or fail
Oks(may) == IF may THEN BOOLEAN ELSE {TRUE}

\* What a transport write can do: reach the radio, which answers with one of
\* `replies` (`good` when it follows the protocol), or fail.  With ~may, only
\* the protocol's answer.
Outcomes(replies, good, may) ==
  IF may
  THEN {[ok |-> TRUE, reply |-> r] : r \in replies \cup {good}}
         \cup {[ok |-> FALSE, reply |-> <<>>]}
  ELSE {[ok |-> TRUE, reply |-> good]}

\* answers to a frame that asks for an acknowledgement: ACK, a NAK (0x15), a
\* stray zero byte before the ACK, nothing
AckReplies == { <<ACK>>, <<21>>, <<0, ACK>>, <<>> }

IdentGood == <<80, 51, 49, 48, 55, 247, 0, 0>>
IdentReplies ==
  { IdentGood,
    <<208, 51, 49, 48, 55, 247, 0, 0>>,
    <<80, 51, 50, 48, 55, 247, 0, 0>>,
    <<>> }

\* the address and the length a block frame of the BF-888 protocol carries
FrameAddress(frame) == frame[2] * 256 + frame[3]
FrameLength(frame) == frame[4]

\* the radio's answer to a read frame: 'W', the address, the length, the bytes
BlockReply(mem, frame) ==
  <<CMD_W, frame[2], frame[3], frame[4]>>
    \o MemBytes(mem, FrameAddress(frame), FrameLength(frame))

\* ... and the answers of a radio that does not follow the protocol
BlockReplies(mem, frame) ==
  { BlockReply(mem, frame),
    <<CMD_R>> \o Tail(BlockReply(mem, frame)),
    <<CMD_W, frame[2], (frame[3] + 8) % 256>> \o SubSeq(BlockReply(mem, frame), 4, 12),
    <<CMD_W, frame[2], frame[3], frame[4] + 1>> \o SubSeq(BlockReply(mem, frame), 5, 12),
    <<>> }

\* the radio stores a block exactly when it acknowledges it
Stores(o) == o.ok /\ o.reply # <<>> /\ o.reply[Len(o.reply)] \in {ACK, ACK_ALT}

\* the radio's memory after a write frame of the BF-888 protocol
RadioWrite(mem, frame, o) ==
  IF Stores(o) /\ Len(frame) > 4 /\ frame[1] = CMD_W
  THEN SetBytes(mem, SubSeq(frame, 5, Len(frame)), FrameAddress(frame))
  ELSE mem

WriteCall(frame, ok) == [c |-> "write", n |-> Len(frame), bytes |-> frame, ok |-> ok]
ReadCall(n, got) == [c |-> "read", n |-> n, bytes |-> got, ok |-> Len(got) = n]
OpenCall(ok) == [c |-> "open", n |-> 0, bytes |-> <<>>, ok |-> ok]
CloseCall(ok) == [c |-> "close", n |-> 0, bytes |-> <<>>, ok |-> ok]

\* a block frame without its leading ACK, if it has one
Unled(frame) == IF Len(frame) > 1 /\ frame[1] = ACK THEN Tail(frame) ELSE frame

\* Is frame a block frame (a command, an address, a length, with or without payload)?
IsBlockFrame(frame) ==
  Len(Unled(frame)) >= 4 /\ Unled(frame)[1] \in {CMD_R, CMD_W, CMD_S, CMD_X}

\* The block frames written are logged as runs [cmd, from, len, count]: count
\* frames of command cmd and length field len for the addresses from,
\* from + len, from + 2 * len, ...  LogFrame appends a frame to the log: to its
\* last run when it goes on with it.
LogFrame(log, frame) ==
  LET c == Unled(frame)[1]
      a == FrameAddress(Unled(frame))
      n == FrameLength(Unled(frame))
      k == Len(log)
  IN  IF ~IsBlockFrame(frame) THEN log
      ELSE IF k > 0 /\ log[k].cmd = c /\ log[k].len = n
              /\ a = log[k].from + log[k].count * n
      THEN [log EXCEPT ![k].count = @ + 1]
      ELSE Append(log, [cmd |-> c, from |-> a, len |-> n, count |-> 1])

\* The transport, the radio and the error state as a handler sees them while it
\* runs: err = <<>> until something throws, after which every further step is
\* skipped.  IoBegin: at the call of an operation; IoNow: at a later step.
IoBegin ==
  [rx |-> rx, calls |-> <<>>, any |-> FALSE, frames |-> <<>>, magic |-> 0,
   clean |-> (rx = <<>>), dev |-> FALSE, dev0 |-> FALSE,
   seen |-> 0, err |-> <<>>, got |-> <<>>, open |-> isOpen, mem |-> devMem]

IoNow ==
  [rx |-> rx, calls |-> <<>>, any |-> ioDone, frames |-> frames, magic |-> magics,
   clean |-> clean, dev |-> dev, dev0 |-> dev,
   seen |-> seen, err |-> <<>>, got |-> <<>>, open |-> isOpen, mem |-> devMem]

Failed(io) == io.err # <<>>

ThrowIf(io, cond, msg) ==
  IF Failed(io) THEN io ELSE IF cond THEN [io EXCEPT !.err = msg] ELSE io

\* backend.open()
TOpen(io, ok) ==
  IF Failed(io) THEN io
  ELSE [io EXCEPT !.calls = Append(@, OpenCall(ok)),
                  !.any = TRUE,
                  !.open = (@ \/ ok),
                  !.clean = (@ /\ ok),
                  !.dev = (@ \/ ~ok),
                  !.err = IF ok THEN <<>> ELSE MsgOpenFailed]

\* backend.close()
TClose(io, ok) ==
  IF Failed(io) THEN io
  ELSE [io EXCEPT !.calls = Append(@, CloseCall(ok)),
                  !.any = TRUE,
                  !.open = (@ /\ ~ok),
                  !.clean = (@ /\ ok),
                  !.dev = (@ \/ ~ok),
                  !.err = IF ok THEN <<>> ELSE MsgCloseFailed]

\* backend.write(frame), answered by the radio with outcome o
TWrite(io, frame, o, good) ==
  IF Failed(io) THEN io
  ELSE [io EXCEPT !.calls = Append(@, WriteCall(frame, o.ok)),
                  !.any = TRUE,
                  !.frames = LogFrame(@, frame),
                  !.magic = IF frame = MAGIC THEN @ + 1 ELSE @,
                  !.rx = @ \o o.reply,
                  !.clean = (@ /\ o.ok /\ o.reply = good),
                  !.dev = (@ \/ ~o.ok \/ o.reply # good),
                  !.err = IF o.ok THEN <<>> ELSE MsgWriteFailed]

\* readExactly whose timeout closes the transport
TRead_ClosesOnTimeout(io, n) ==
  IF Failed(io) THEN io
  ELSE IF Len(io.rx) >= n
  THEN [io EXCEPT !.calls = Append(@, ReadCall(n, SubSeq(io.rx, 1, n))),
                  !.any = TRUE,
                  !.got = SubSeq(io.rx, 1, n),
                  !.rx = SubSeq(@, n + 1, Len(@))]
  ELSE [io EXCEPT !.calls = Append(@, ReadCall(n, <<>>)) \o << CloseCall(TRUE) >>,
                  !.any = TRUE,
                  !.got = <<>>,
                  !.open = FALSE,
                  !.err = MsgTimeout]

\* backend.readExactly(n, timeout): the first n bytes the radio sent, or a
\* timeout that leaves what it sent for the next call
TRead(io, n) ==
  IF Failed(io) THEN io
  ELSE IF Len(io.rx) >= n
  THEN [io EXCEPT !.calls = Append(@, ReadCall(n, SubSeq(io.rx, 1, n))),
                  !.any = TRUE,
                  !.got = SubSeq(io.rx, 1, n),
                  !.rx = SubSeq(@, n + 1, Len(@))]
  ELSE [io EXCEPT !.calls = Append(@, ReadCall(n, <<>>)),
                  !.any = TRUE,
                  !.got = <<>>,
                  !.err = MsgTimeout]

\* data[0] of the bytes last read (-1 when there are none)
First(io) == IF io.got = <<>> THEN -1 ELSE io.got[1]

-----------------------------------------------------------------------------
(* Control *)

cfgVars == <<model, rev, dryRun, checksumValidators>>

\* a caller invokes operation o
Free == <<"any">>

\* a scenario that goes on with its next session after a session threw
RECURSIVE AfterFailure_NextSession(_)
AfterFailure_NextSession(p) ==
  IF p = <<>> THEN <<>>
  ELSE IF Head(p) = "disconnect" THEN Tail(p)
  ELSE AfterFailure_NextSession(Tail(p))

\* what is left of the plan p of a scenario when a session threw: the
\* scenario awaits each session, so the error leaves the scenario
AfterFailure(p) == <<>>

\* a caller invokes operation o: any operation when it runs no scenario; else
\* the scenario's next one, or, after the session's function threw, the
\* session runner's disconnect, after which nothing is left to do
Begin(o) ==
  /\ pc = "idle"
  /\ IF plan = Free THEN opsDone < MaxOps /\ plan' = plan /\ scenario' = scenario
     ELSE IF result = "error"
     THEN /\ op \in {"read", "write"} /\ o = "disconnect" /\ plan' = AfterFailure(plan)
          /\ scenario' = [scenario EXCEPT !.failed = TRUE]
     ELSE /\ plan # <<>> /\ Head(plan) = o /\ plan' = Tail(plan)
          /\ scenario' = IF o = "connect"
                         THEN [scenario EXCEPT !.sessions = Append(@, plan[2])]
                         ELSE scenario
  /\ opsDone' = opsDone + 1
  /\ op' = o
  /\ UNCHANGED <<aside, original, readBack>>

\* the calls of cs that succeeded, but for the bytes readUntilAck skips
Succeeded(cs) ==
  SelectSeq(cs, LAMBDA call :
    call.ok /\ ~(call.c = "read" /\ call.n = 1 /\ call.bytes # <<ACK>>))

\* the record of the handshake after a step with the calls of io: it starts
\* when connect is called, is dropped when connect throws, is kept as done
\* when connect sets connected, until disconnect clears connected
Handshake(io) ==
  LET running == IF pc = "idle" THEN op' ELSE op IN
  IF model # "A" THEN handshake
  ELSE IF running = "connect"
  THEN IF Failed(io) \/ pc = "c_catch" THEN [handshake EXCEPT !.now = <<>>]
       ELSE IF pc = "c_ack"
       THEN [now |-> <<>>, done |-> handshake.now \o Succeeded(io.calls)]
       ELSE [handshake EXCEPT
               !.now = (IF pc = "idle" THEN <<>> ELSE @) \o Succeeded(io.calls)]
  ELSE IF running = "disconnect" /\ connected /\ ~Failed(io)
  THEN [handshake EXCEPT !.done = <<>>]
  ELSE handshake

Commit(io) ==
  /\ handshake' = Handshake(io)
  /\ rx' = io.rx
  /\ calls' = io.calls
  /\ ioDone' = io.any
  /\ frames' = io.frames
  /\ magics' = io.magic
  /\ clean' = io.clean
  /\ dev' = io.dev
  /\ devOps' = IF io.dev /\ ~io.dev0 THEN devOps + 1 ELSE devOps
  /\ seen' = io.seen
  /\ isOpen' = io.open
  /\ devMem' = io.mem

Locals(a, r, b, d) == addr' = a /\ rangeIx' = r /\ buffer' = b /\ data' = d
Ghosts(v, l, ret) == validated' = v /\ logged' = l /\ returned' = ret

\* the step is taken again after error e, where the code throws it
Raise_Retry(e) == pc' = pc /\ result' = "none" /\ err' = e

\* the operation ends with error e reaching the caller
Raise(e) == pc' = "idle" /\ result' = "error" /\ err' = e

\* the operation goes on at `next`
Goto(next) == pc' = next /\ result' = "none" /\ err' = <<>>

\* the operation returns
Return == pc' = "idle" /\ result' = "ok" /\ err' = <<>>

\* unchanged by every step that follows the call of an operation
opKeep == <<cfgVars, op, opsDone, data, validated, upload, aside, scenarioVars>>

-----------------------------------------------------------------------------
(* BF888Driver *)

\* block addresses at which the radio or the transport may deviate inside a
\* block loop of the BF-888: the first, the second and the last block, and the
\* first block of the second write range
FaultAddrsA == {0, 8, 688, 984}

\* the image held as the one run b, as writeCodeplug's argument
AsImage(b) == [pat |-> b[1].pat, len |-> MemLen(b)]

\* what a caller passes to writeCodeplug: one of `images`; in a scenario the
\* image its first session returned, or the one synthesized from it
Uploads(images) ==
  IF plan = Free THEN images
  ELSE IF scenario.image # <<>>
  THEN (IF Len(scenario.image) = 1 THEN {AsImage(scenario.image)} ELSE {})
  ELSE IF Len(original) = 1 THEN {AsImage(original)} ELSE {}

\* the images a caller passes to BF888Driver.writeCodeplug
ImagesA ==
  { [pat |-> 1, len |-> BF888_MEM_SIZE],
    [pat |-> 1, len |-> BF888_MEM_SIZE - 1] }

\* the checksumValidators option: TRUE for a validator that accepts the images
\* the caller passes, FALSE for one that throws
ValidatorLists == { <<>>, <<TRUE, TRUE>>, <<TRUE, FALSE, TRUE>> }

\* Does the wait for an acknowledgement go on after a byte that is not ACK?
\* readUntilAck (revision 1) pushes it to seen and loops; revision 2 throws.
SkipsNonAck == rev = 1

\* Does connect close the transport when a step after open() throws?
\* Revision 1 wraps the steps in try/catch (bf888.ts:39,59-62); revision 2 does not.
ClosesOnFailure == rev = 1

\* readUntilAck (bf888.ts:141-166); turns: the loop iterations that start
\* before the deadline
RECURSIVE readUntilAck(_, _)
readUntilAck(io, turns) ==
  IF turns = 0 THEN [io EXCEPT !.err = MsgAckTimedOut]
  ELSE LET r == TRead(io, 1) IN
       IF Failed(r) THEN [r EXCEPT !.err = MsgAckFailed]
       ELSE IF First(r) = ACK THEN r
       ELSE readUntilAck([r EXCEPT !.seen = @ + 1], turns - 1)

\* readByte and the comparison that follows it (bf888.ts:360-363, 257-260)
readByteAck(io) ==
  LET r == TRead(io, 1) IN ThrowIf(r, First(r) # ACK, MsgUnexpectedAck)

\* the wait for an acknowledgement of either revision
awaitAck(io, turns) ==
  IF Failed(io) THEN io
  ELSE IF SkipsNonAck THEN readUntilAck([io EXCEPT !.seen = 0], turns)
  ELSE readByteAck(io)

\* the turns a wait that starts with io can take before its deadline
Turns(io) == IF SkipsNonAck /\ ~Failed(io) /\ Len(io.rx) > 1 THEN 1..Len(io.rx) ELSE {1}

\* an error thrown inside connect: caught (revision 1) or passed to the caller
ConnectThrow(e) ==
  IF ClosesOnFailure THEN pc' = "c_catch" /\ result' = "none" /\ err' = e
  ELSE Raise(e)

connectKeep == <<opKeep, addr, rangeIx, buffer, logged, returned, attempt, delays, tried>>

\* connect is called: await this.backend.open()
BF888_connect ==
  /\ model = "A"
  /\ Begin("connect")
  /\ \E ok \in Oks(MayDeviateNew) :
       LET io == TOpen(IoBegin, ok) IN
         /\ Commit(io)
         /\ IF Failed(io) THEN Raise(io.err)
            ELSE Goto(IF rev = 1 THEN "c_mode" ELSE "c_program")
  /\ Locals(0, 1, <<>>, NoImage)
  /\ Ghosts(<<>>, <<>>, <<>>)
  /\ UNCHANGED <<cfgVars, connected, attempt, delays, tried, upload>>

\* revision 1: await this.backend.write(new Uint8Array([0x02])); await delay(100)
BF888_connect_mode ==
  /\ model = "A"
  /\ pc = "c_mode"
  /\ \E o \in Outcomes({<<>>}, <<>>, MayDeviate) :
       LET io == TWrite(IoNow, <<2>>, o, <<>>) IN
         /\ Commit(io)
         /\ IF Failed(io) THEN ConnectThrow(io.err) ELSE Goto("c_program")
  /\ UNCHANGED <<connectKeep, connected>>

\* write 'PROGRAM' (revision 1) or '\x02PROGRAM' (revision 2), wait for ACK
BF888_connect_program ==
  /\ model = "A"
  /\ pc = "c_program"
  /\ \E o \in Outcomes(AckReplies, <<ACK>>, MayDeviate) :
       LET io1 == TWrite(IoNow, IF rev = 1 THEN CmdProgram ELSE CmdModeProgram, o, <<ACK>>)
       IN  \E turns \in Turns(io1) :
             LET io == awaitAck(io1, turns) IN
               /\ Commit(io)
               /\ IF Failed(io) THEN ConnectThrow(io.err) ELSE Goto("c_ident")
  /\ UNCHANGED <<connectKeep, connected>>

\* write [0x02], readExactly(8, 2000), decodeAscii, startsWith(IDENT_PREFIX)
BF888_connect_ident ==
  /\ model = "A"
  /\ pc = "c_ident"
  /\ \E o \in Outcomes(IdentReplies, IdentGood, MayDeviate) :
       LET io1 == TRead(TWrite(IoNow, <<2>>, o, IdentGood), 8)
           io == ThrowIf(io1, ~startsWith(decodeAscii(io1.got), IDENT_PREFIX),
                         MsgUnexpectedIdent)
       IN  /\ Commit(io)
           /\ IF Failed(io) THEN ConnectThrow(io.err) ELSE Goto("c_ack")
  /\ UNCHANGED <<connectKeep, connected>>

\* write [ACK], wait for ACK, this.connected = true
BF888_connect_ack ==
  /\ model = "A"
  /\ pc = "c_ack"
  /\ \E o \in Outcomes(AckReplies, <<ACK>>, MayDeviate) :
       LET io1 == TWrite(IoNow, <<ACK>>, o, <<ACK>>)
       IN  \E turns \in Turns(io1) :
             LET io == awaitAck(io1, turns) IN
               /\ Commit(io)
               /\ IF Failed(io) THEN ConnectThrow(io.err) /\ connected' = connected
                  ELSE Return /\ connected' = TRUE
  /\ UNCHANGED connectKeep

\* revision 1: catch (err) { await this.backend.close().catch(() => undefined); throw err; }
BF888_connect_catch ==
  /\ model = "A"
  /\ pc = "c_catch"
  /\ \E ok \in Oks(MayDeviate) :
       LET io == TClose(IoNow, ok) IN
         /\ Commit([io EXCEPT !.clean = FALSE])
         /\ Raise(err)
  /\ UNCHANGED <<connectKeep, connected>>

\* disconnect that closes the transport before it writes the exit command
disconnect_CloseFirst(io, o, ok) == TWrite(TClose(io, ok), CmdExit, o, <<>>)

\* the transport calls of disconnect on a connected driver (bf888.ts:67-68)
disconnect(io, o, ok) == TClose(TWrite(io, CmdExit, o, <<>>), ok)

\* disconnect: if (!this.connected) return; write 'E'; close; this.connected = false
BF888_disconnect ==
  /\ model = "A"
  /\ Begin("disconnect")
  /\ IF ~connected
     THEN Commit(IoBegin) /\ Return /\ connected' = connected
     ELSE \E o \in Outcomes({<<>>}, <<>>, MayDeviateNew), ok \in Oks(MayDeviateNew) :
            LET io == disconnect(IoBegin, o, ok) IN
              /\ Commit(io)
              /\ IF Failed(io) THEN Raise(io.err) /\ connected' = connected
                 ELSE Return /\ connected' = FALSE
  /\ Locals(0, 1, <<>>, NoImage)
  /\ Ghosts(<<>>, <<>>, <<>>)
  /\ UNCHANGED <<cfgVars, attempt, delays, tried, upload>>

\* ensureConnected that never throws
ensureConnectedThrows_Never(isConnected) == FALSE

\* ensureConnected (bf888.ts:168-172): if (!this.connected) throw ...; does it throw?
ensureConnectedThrows(isConnected) == ~isConnected

\* readCodeplug is called: ensureConnected, new Uint8Array(MEM_SIZE), addr = 0
BF888_readCodeplug ==
  /\ model = "A"
  /\ Begin("read")
  /\ Commit(IoBegin)
  /\ IF ensureConnectedThrows(connected)
     THEN Raise(MsgNotConnected) /\ Locals(0, 1, <<>>, NoImage)
     ELSE /\ Goto("r_loop")
          /\ Locals(0, 1, Zeros(BF888_MEM_SIZE), NoImage)
  /\ Ghosts(<<>>, <<>>, <<>>)
  /\ UNCHANGED <<cfgVars, connected, attempt, delays, tried, upload>>

\* readBlock that does not look at the header of the response
readBlock_AnyHeader(io, address, length, o1, o2, turns) ==
  LET io1 == TRead(TWrite(io, buildHeader(CMD_R, address, length), o1,
                          BlockReply(io.mem, buildHeader(CMD_R, address, length))),
                   4 + length)
      response == io1.got
      io3 == awaitAck(TWrite(io1, <<ACK>>, o2, <<ACK>>), turns)
  IN  [io3 EXCEPT !.got = slice(response, 4, Len(response))]

\* readBlock(address, length) (bf888.ts:106-125); io.got is the data it returns
readBlock(io, address, length, o1, o2, turns) ==
  LET io1 == TRead(TWrite(io, buildHeader(CMD_R, address, length), o1,
                          BlockReply(io.mem, buildHeader(CMD_R, address, length))),
                   4 + length)
      io2 == ThrowIf(io1, ~buffersEqual(slice(io1.got, 0, 4),
                                        buildHeader(CMD_W, address, length)),
                     MsgBlockHeader)
      response == io1.got
      io3 == awaitAck(TWrite(io2, <<ACK>>, o2, <<ACK>>), turns)
  IN  [io3 EXCEPT !.got = slice(response, 4, Len(response))]

\* one iteration of readCodeplug's loop: readBlock, buffer.set(block, addr), addr += BLOCK_SIZE
BF888_readBlock ==
  /\ model = "A"
  /\ pc = "r_loop"
  /\ \E o1 \in Outcomes(BlockReplies(devMem, buildHeader(CMD_R, addr, BF888_BLOCK_SIZE)),
                        BlockReply(devMem, buildHeader(CMD_R, addr, BF888_BLOCK_SIZE)),
                        MayDeviate /\ addr \in FaultAddrsA) :
     \E o2 \in Outcomes(AckReplies, <<ACK>>,
                        MayDeviate /\ addr \in FaultAddrsA /\ o1.ok
                          /\ o1.reply = BlockReply(devMem, buildHeader(CMD_R, addr, BF888_BLOCK_SIZE))) :
     \E turns \in 1..(IF SkipsNonAck THEN Len(o2.reply) ELSE 1) \cup {1} :
       LET io == readBlock(IoNow, addr, BF888_BLOCK_SIZE, o1, o2, turns) IN
         /\ Commit(io)
         /\ IF Failed(io)
            THEN Raise(io.err) /\ UNCHANGED <<addr, buffer, returned>>
            ELSE /\ buffer' = SetBytes(buffer, io.got, addr)
                 /\ addr' = addr + BF888_BLOCK_SIZE
                 /\ IF addr + BF888_BLOCK_SIZE < BF888_MEM_SIZE
                    THEN Goto("r_loop") /\ returned' = returned
                    ELSE Return /\ returned' = buffer'
  /\ UNCHANGED <<opKeep, connected, rangeIx, logged, attempt, delays, tried>>

\* writeCodeplug's loop body with the dry-run branch left out
LogsOnlyA_Never(flag) == FALSE

\* if (this.dryRun) { this.log(...); continue; } (bf888.ts:95-100): does the
\* loop body log the block and go on, without writeBlock?
LogsOnlyA(flag) == flag

\* writeCodeplug is called: ensureConnected, the length check, validateChecksums,
\* and with dryRun the whole loop, which then awaits nothing
BF888_writeCodeplug ==
  /\ model = "A"
  /\ Begin("write")
  /\ Commit(IoBegin)
  /\ \E d \in Uploads(ImagesA) :
       /\ data' = d
       /\ buffer' = <<>>
       /\ returned' = <<>>
       /\ IF ensureConnectedThrows(connected)
          THEN Raise(MsgNotConnected) /\ validated' = <<>> /\ logged' = <<>>
               /\ addr' = 0 /\ rangeIx' = 1
          ELSE IF TooSmall(d)
          THEN Raise(MsgTooSmall) /\ validated' = <<>> /\ logged' = <<>>
               /\ addr' = 0 /\ rangeIx' = 1
          ELSE /\ validated' = validateChecksums(checksumValidators)
               /\ IF ~ChecksumsPass(checksumValidators)
                  THEN Raise(MsgChecksum) /\ logged' = <<>> /\ addr' = 0 /\ rangeIx' = 1
                  ELSE IF LogsOnlyA(dryRun)
                  THEN Return /\ logged' = WriteAddrsFrom(WriteStart)
                       /\ addr' = 0 /\ rangeIx' = 1
                  ELSE IF WriteStart.done
                  THEN Return /\ logged' = <<>> /\ addr' = 0 /\ rangeIx' = 1
                  ELSE Goto("w_loop") /\ logged' = <<>>
                       /\ addr' = WriteStart.a /\ rangeIx' = WriteStart.r
  /\ UNCHANGED <<cfgVars, connected, attempt, delays, tried, upload>>

\* writeBlock(address, data) (bf888.ts:127-139)
writeBlock(io, address, blk, o, turns) ==
  LET io1 == ThrowIf(io, Len(blk) # BF888_BLOCK_SIZE, MsgInvalidBlock)
      frame == buildHeader(CMD_W, address, Len(blk)) \o blk
      io2 == TWrite(io1, frame, o, <<ACK>>)
      io3 == IF Failed(io1) THEN io2 ELSE [io2 EXCEPT !.mem = RadioWrite(@, frame, o)]
  IN  awaitAck(io3, turns)

\* one iteration of writeCodeplug's loops: data.slice, writeBlock, the loops' step
BF888_writeBlock ==
  /\ model = "A"
  /\ pc = "w_loop"
  /\ \E o \in Outcomes(AckReplies, <<ACK>>, MayDeviate /\ addr \in FaultAddrsA) :
     \E turns \in 1..(IF SkipsNonAck THEN Len(o.reply) ELSE 1) \cup {1} :
       LET io == writeBlock(IoNow, addr, ImageSlice(data, addr, addr + BF888_BLOCK_SIZE),
                            o, turns)
           nx == WriteNext(rangeIx, addr)
       IN  /\ Commit(io)
           /\ IF Failed(io) THEN Raise(io.err) /\ UNCHANGED <<addr, rangeIx>>
              ELSE IF nx.done THEN Return /\ UNCHANGED <<addr, rangeIx>>
              ELSE Goto("w_loop") /\ addr' = nx.a /\ rangeIx' = nx.r
  /\ UNCHANGED <<opKeep, connected, buffer, logged, returned, attempt, delays, tried>>

InitCommon ==
  /\ dryRun \in BOOLEAN
  /\ connected = FALSE
  /\ isOpen = FALSE
  /\ rx = <<>>
  /\ pc = "idle"
  /\ op = "none"
  /\ result = "none"
  /\ calls = <<>>
  /\ ioDone = FALSE
  /\ frames = <<>>
  /\ magics = 0
  /\ tried = <<>>
  /\ opsDone = 0
  /\ addr = 0
  /\ rangeIx = 1
  /\ buffer = <<>>
  /\ data = NoImage
  /\ seen = 0
  /\ err = <<>>
  /\ validated = <<>>
  /\ logged = <<>>
  /\ returned = <<>>
  /\ clean = TRUE
  /\ dev = FALSE
  /\ devOps = 0
  /\ attempt = 0
  /\ upload = FALSE
  /\ delays = 0
  /\ handshake = [now |-> <<>>, done |-> <<>>]

\* no scenario function is called
NoCall == fn = "none" /\ fnArgs = <<>> /\ fnOut = <<>>

\* the caller runs no scenario
Scenario(name) ==
  [name |-> name, sessions |-> <<>>, image |-> <<>>, failed |-> FALSE, passed |-> FALSE]

NoScenario ==
  plan = Free /\ original = <<>> /\ readBack = <<>> /\ scenario = Scenario("none")

\* the classes of backends: NodeSerialBackend of the first and of the second
\* revision in node/serialBackend.ts, WebSerialBackend
Kinds == {"Node1", "Node2", "Web"}

\* no call was made on a backend
NoTransportCall ==
  [name |-> "none", state |-> "settled", length |-> 0, chunks |-> <<>>,
   result |-> "none", error |-> "", got |-> <<>>, k |-> 0, timeouts |-> 0]

\* no backend of this model is created
NoBackend ==
  /\ backend = [kind |-> "none"]
  /\ port = [opened |-> FALSE, wire |-> <<>>, reads |-> 0]
  /\ tcall = NoTransportCall
  /\ sent = 0
  /\ delivered = <<>>

InitA ==
  /\ model = "A"
  /\ rev \in {1, 2}
  /\ checksumValidators \in ValidatorLists
  /\ devMem = PatternRuns(0, BF888_MEM_SIZE)
  /\ InitCommon
  /\ NoCall /\ NoBackend /\ NoScenario

NextA ==
  \/ BF888_connect
  \/ BF888_connect_mode
  \/ BF888_connect_program
  \/ BF888_connect_ident
  \/ BF888_connect_ack
  \/ BF888_connect_catch
  \/ BF888_disconnect
  \/ BF888_readCodeplug
  \/ BF888_readBlock
  \/ BF888_writeCodeplug
  \/ BF888_writeBlock

SpecA == InitA /\ [][NextA]_vars

-----------------------------------------------------------------------------
(* KT8900Driver *)

\* thrown by identifyOnce: "Short ident block: N bytes"
MsgShortIdent ==
  << "S", "h", "o", "r", "t", " ", "i", "d", "e", "n", "t", " ", "b", "l",
     "o", "c", "k", ":", " ", "N", " ", "b", "y", "t", "e", "s" >>

\* thrown by identifyOnce: "Extra ID block is short: N bytes"
MsgExtraShort ==
  << "E", "x", "t", "r", "a", " ", "I", "D", " ", "b", "l", "o", "c", "k",
     " ", "i", "s", " ", "s", "h", "o", "r", "t", ":", " ", "N", " ", "b",
     "y", "t", "e", "s" >>

\* String.prototype.toLowerCase on one character
LowerCase ==
    ("A" :> "a") @@ ("B" :> "b") @@ ("C" :> "c") @@ ("D" :> "d") @@ ("E" :> "e")
    @@ ("F" :> "f") @@ ("G" :> "g") @@ ("H" :> "h") @@ ("I" :> "i") @@ ("J" :>
    "j") @@ ("K" :> "k") @@ ("L" :> "l") @@ ("M" :> "m") @@ ("N" :> "n") @@ ("O"
    :> "o") @@ ("P" :> "p") @@ ("Q" :> "q") @@ ("R" :> "r") @@ ("S" :> "s") @@
    ("T" :> "t") @@ ("U" :> "u") @@ ("V" :> "v") @@ ("W" :> "w") @@ ("X" :> "x")
    @@ ("Y" :> "y") @@ ("Z" :> "z")

toLower(ch) == IF ch \in DOMAIN LowerCase THEN LowerCase[ch] ELSE ch

\* /word/i.test(message), word in lower case
TestIgnoreCase(word, message) ==
  \E i \in 0..(Len(message) - Len(word)) :
    \A j \in 1..Len(word) : toLower(message[i + j]) = word[j]

\* isTimeoutError (kt8900.ts:238-241): /Timeout/i
isTimeoutError(e) == TestIgnoreCase(<<"t", "i", "m", "e", "o", "u", "t">>, e)

\* isRetryableIdentError that stops at `err instanceof Error`: every Error is retried
retryAll(e) == TRUE

\* isRetryableIdentError (kt8900.ts:279-282): /Timeout|ACK|ident|upload/i
isRetryableIdentError(e) ==
  \/ TestIgnoreCase(<<"t", "i", "m", "e", "o", "u", "t">>, e)
  \/ TestIgnoreCase(<<"a", "c", "k">>, e)
  \/ TestIgnoreCase(<<"i", "d", "e", "n", "t">>, e)
  \/ TestIgnoreCase(<<"u", "p", "l", "o", "a", "d">>, e)

\* identifyWithRetry's throw with attempt > attempts in place of attempt >= attempts
GivesUp_Late(a, e) == a > attempts \/ ~isRetryableIdentError(e)

\* the condition of identifyWithRetry's throw (kt8900.ts:97)
GivesUp(a, e) == a >= attempts \/ ~isRetryableIdentError(e)

\* writeBlock called with omitLeadingAck = false for every block
omitNever(address) == FALSE

\* the omitLeadingAck argument of writeBlock (kt8900.ts:86)
omitLeadingAck(address) == address = 0

\* writeCodeplug's length check against a minimum one byte too small
TooSmallB_OffByOne(d) == d.len < UPLOAD_MEM_SIZE - 1

\* writeCodeplug's length check (kt8900.ts:72)
TooSmallB(d) == d.len < UPLOAD_MEM_SIZE

\* buildFrame without the address's high byte
buildFrame_NoHighByte(command, address, length, payload) ==
  <<ACK, command, 0, address % 256, length % 256>> \o payload

\* buildFrame (kt8900.ts:194-214)
buildFrame(command, address, length, payload) ==
  <<ACK, command, (address \div 256) % 256, address % 256, length % 256>> \o payload

\* containsSubarray (kt8900.ts:260-273)
\* containsSubarray whose loop ends one position early
containsSubarray_EndsEarly(haystack, needle) ==
  IF Len(needle) = 0 \/ Len(haystack) < Len(needle) THEN FALSE
  ELSE \E i \in 0..(Len(haystack) - Len(needle) - 1) :
         \A j \in 1..Len(needle) : haystack[i + j] = needle[j]

\* containsSubarray (kt8900.ts:260-273)
containsSubarray(haystack, needle) ==
  IF Len(needle) = 0 \/ Len(haystack) < Len(needle) THEN FALSE
  ELSE \E i \in 0..(Len(haystack) - Len(needle)) :
         \A j \in 1..Len(needle) : haystack[i + j] = needle[j]

\* block addresses at which the radio or the transport may deviate inside a
\* block loop of the KT-8900: the first, the second and the last block
FaultAddrsB == {0, 16, 64, 12528, 16320}

\* the images a caller passes to KT8900Driver.writeCodeplug
ImagesB ==
  { [pat |-> 1, len |-> UPLOAD_MEM_SIZE],
    [pat |-> 1, len |-> UPLOAD_MEM_SIZE - 1] }

Fill(n, v) == [i \in 1..n |-> v]

\* the radio's answer to MAGIC: an ACK and an ident block that holds 'M2G1F4', ...
IdentB == <<ACK>> \o Fill(20, 255) \o <<77, 50, 71, 49, 70, 52>> \o Fill(23, 255)

\* ... or no ACK before it, an ident block of another radio, nothing, or an
\* ident block that holds 'M29154' first, one that holds 'M2C194' last
IdentRepliesB ==
  { IdentB,
    <<21>> \o Tail(IdentB),
    <<ACK>> \o Fill(20, 255) \o <<77, 50, 71, 49, 70, 53>> \o Fill(23, 255),
    <<>>,
    <<ACK_ALT>> \o Tail(IdentB),
    <<ACK>> \o <<77, 50, 57, 49, 53, 52>> \o Fill(43, 255),
    <<ACK>> \o Fill(43, 255) \o <<77, 50, 67, 49, 57, 52>> }

\* the radio's answer to an 'S' frame: ACK, 'X', the address, the length, the bytes
BlockReplyB(mem, frame) ==
  <<ACK, CMD_X, frame[3], frame[4], frame[5]>>
    \o MemBytes(mem, FrameAddress(Tail(frame)), FrameLength(Tail(frame)))

\* ... and the answers of a radio that does not follow the protocol
BlockRepliesB(mem, frame) ==
  { BlockReplyB(mem, frame),
    <<21>> \o Tail(BlockReplyB(mem, frame)),
    <<ACK_ALT>> \o Tail(BlockReplyB(mem, frame)),
    <<ACK, CMD_S>> \o Tail(Tail(BlockReplyB(mem, frame))),
    <<ACK, CMD_X, frame[3], (frame[4] + 16) % 256>>
      \o SubSeq(BlockReplyB(mem, frame), 5, Len(BlockReplyB(mem, frame))),
    <<ACK, CMD_X, frame[3], frame[4], (frame[5] + 1) % 256>>
      \o SubSeq(BlockReplyB(mem, frame), 6, Len(BlockReplyB(mem, frame))),
    <<>> }

\* the answers to the extra ID frame: the block with ACK or ACK_ALT before it, ...
ExtraRepliesB(mem, frame) ==
  { BlockReplyB(mem, frame),
    <<ACK_ALT>> \o Tail(BlockReplyB(mem, frame)),
    <<21>> \o Tail(BlockReplyB(mem, frame)),
    SubSeq(BlockReplyB(mem, frame), 1, 5),
    <<>> }

\* the answers to the ACK that asks for upload mode
UploadReplies == { <<ACK>>, <<ACK_ALT, ACK>>, <<ACK, ACK_ALT>>, <<ACK_ALT, ACK_ALT, ACK>>, <<>> }

\* the answers to a block written
WriteRepliesB == { <<ACK>>, <<ACK_ALT>>, <<21>>, <<>> }

\* the radio's memory after a write frame of the KT-8900 protocol
RadioWriteB(mem, frame, o) ==
  IF Stores(o) /\ Len(Unled(frame)) > 4 /\ Unled(frame)[1] = CMD_X
  THEN SetBytes(mem, SubSeq(Unled(frame), 5, Len(Unled(frame))), FrameAddress(Unled(frame)))
  ELSE mem

\* readOptionalAck (kt8900.ts:216-236); io.got is the array it returns
RECURSIVE readOptionalAck(_, _, _)
readOptionalAck(io, out, maxBytes) ==
  IF Failed(io) THEN io
  ELSE IF maxBytes = 0 THEN [io EXCEPT !.got = out]
  ELSE LET r == TRead(io, 1) IN
       IF Failed(r)
       THEN IF isTimeoutError(r.err) THEN [r EXCEPT !.err = <<>>, !.got = out] ELSE r
       ELSE readOptionalAck(r, Append(out, r.got[1]), maxBytes - 1)

\* ack[0] in place of ack[ack.length - 1]
Last_First(s) == IF s = <<>> THEN -1 ELSE s[1]

\* ack[ack.length - 1] (-1 when ack is empty)
Last(s) == IF s = <<>> THEN -1 ELSE s[Len(s)]

\* const extraFrame = buildFrame('S', EXTRA_ID_ADDR, EXTRA_ID_LEN) (kt8900.ts:124)
ExtraFrame == buildFrame(CMD_S, EXTRA_ID_ADDR, EXTRA_ID_LEN, <<>>)

\* identifyOnce that leaves the upload step out whatever its argument
identifyOnce_NoUpload(io, up, o1, o2, o3) ==
  LET io1 == TRead(TWrite(io, MAGIC, o1, IdentB), IDENT_LENGTH)
      ident == io1.got
      io2 == ThrowIf(io1, First(io1) # ACK, MsgBadAckRadio)
      io3 == ThrowIf(io2, Len(ident) # IDENT_LENGTH, MsgShortIdent)
      io4 == ThrowIf(io3, ~\E id \in FILE_IDS : containsSubarray(ident, id), MsgIdentFailed)
      io5 == TRead(TWrite(io4, ExtraFrame, o2, BlockReplyB(io.mem, ExtraFrame)),
                   1 + 4 + EXTRA_ID_LEN)
      io6 == ThrowIf(io5, First(io5) # ACK /\ First(io5) # ACK_ALT, MsgBadAckExtra)
  IN  ThrowIf(io6, Len(io5.got) < 1 + 4 + EXTRA_ID_LEN, MsgExtraShort)

\* identifyOnce (kt8900.ts:106-143)
identifyOnce(io, up, o1, o2, o3) ==
  LET io1 == TRead(TWrite(io, MAGIC, o1, IdentB),
                   IDENT_LENGTH)
      ident == io1.got
      io2 == ThrowIf(io1, First(io1) # ACK, MsgBadAckRadio)
      io3 == ThrowIf(io2, Len(ident) # IDENT_LENGTH, MsgShortIdent)
      io4 == ThrowIf(io3, ~\E id \in FILE_IDS : containsSubarray(ident, id), MsgIdentFailed)
      io5 == TRead(TWrite(io4, ExtraFrame, o2, BlockReplyB(io.mem, ExtraFrame)),
                   1 + 4 + EXTRA_ID_LEN)
      io6 == ThrowIf(io5, First(io5) # ACK /\ First(io5) # ACK_ALT, MsgBadAckExtra)
      io7 == ThrowIf(io6, Len(io5.got) < 1 + 4 + EXTRA_ID_LEN, MsgExtraShort)
      io8 == readOptionalAck(TWrite(io7, <<ACK>>, o3, <<ACK>>), <<>>, 2)
  IN  IF up
      THEN ThrowIf(io8, Len(io8.got) = 0 \/ Last(io8.got) # ACK, MsgUploadAck)
      ELSE io7

\* connect that goes on to send the magic sequence
connectB_SendsMagic(io, ok) ==
  TWrite(TOpen(io, ok), MAGIC, [ok |-> TRUE, reply |-> <<>>], <<>>)

\* the transport calls of connect (kt8900.ts:48)
connectB(io, ok) == TOpen(io, ok)

\* disconnect that writes the BF-888's exit command before it closes
disconnectB_WritesExit(io, ok) ==
  TClose(TWrite(io, CmdExit, [ok |-> TRUE, reply |-> <<>>], <<>>), ok)

\* the transport calls of disconnect on a connected driver (kt8900.ts:54)
disconnectB(io, ok) == TClose(io, ok)

\* connect (kt8900.ts:47-50)
KT8900_connect ==
  /\ model = "B"
  /\ Begin("connect")
  /\ \E ok \in Oks(MayDeviateNew) :
       LET io == connectB(IoBegin, ok) IN
         /\ Commit(io)
         /\ IF Failed(io) THEN Raise(io.err) /\ connected' = connected
            ELSE Return /\ connected' = TRUE
  /\ Locals(0, 1, <<>>, NoImage)
  /\ Ghosts(<<>>, <<>>, <<>>)
  /\ attempt' = 0 /\ delays' = 0 /\ tried' = <<>> /\ upload' = FALSE
  /\ UNCHANGED cfgVars

\* disconnect (kt8900.ts:52-56)
KT8900_disconnect ==
  /\ model = "B"
  /\ Begin("disconnect")
  /\ IF ~connected
     THEN Commit(IoBegin) /\ Return /\ connected' = connected
     ELSE \E ok \in Oks(MayDeviateNew) :
            LET io == disconnectB(IoBegin, ok) IN
              /\ Commit(io)
              /\ IF Failed(io) THEN Raise(io.err) /\ connected' = connected
                 ELSE Return /\ connected' = FALSE
  /\ Locals(0, 1, <<>>, NoImage)
  /\ Ghosts(<<>>, <<>>, <<>>)
  /\ attempt' = 0 /\ delays' = 0 /\ tried' = <<>> /\ upload' = FALSE
  /\ UNCHANGED cfgVars

\* KT8900Driver.ensureConnected (kt8900.ts:187-191): does it throw?
ensureConnectedThrowsB(isConnected) == ~isConnected

\* readCodeplug is called: ensureConnected, then identifyWithRetry(false)
KT8900_readCodeplug ==
  /\ model = "B"
  /\ Begin("read")
  /\ Commit(IoBegin)
  /\ IF ensureConnectedThrowsB(connected) THEN Raise(MsgNotConnected) /\ attempt' = 0
     ELSE Goto("ident") /\ attempt' = 1
  /\ Locals(0, 1, <<>>, NoImage)
  /\ Ghosts(<<>>, <<>>, <<>>)
  /\ delays' = 0 /\ tried' = <<>> /\ upload' = FALSE
  /\ UNCHANGED <<cfgVars, connected>>

\* writeCodeplug is called: ensureConnected, the length check, then identifyWithRetry(true)
KT8900_writeCodeplug ==
  /\ model = "B"
  /\ Begin("write")
  /\ Commit(IoBegin)
  /\ \E d \in Uploads(ImagesB) :
       /\ Locals(0, 1, <<>>, d)
       /\ IF ensureConnectedThrowsB(connected) THEN Raise(MsgNotConnected) /\ attempt' = 0 /\ upload' = FALSE
          ELSE IF TooSmallB(d) THEN Raise(MsgTooSmall) /\ attempt' = 0 /\ upload' = FALSE
          ELSE Goto("ident") /\ attempt' = 1 /\ upload' = TRUE
  /\ Ghosts(<<>>, <<>>, <<>>)
  /\ delays' = 0 /\ tried' = <<>>
  /\ UNCHANGED <<cfgVars, connected>>

\* the addresses writeCodeplug's loop visits from a on
WriteAddrsB(a) ==
  [i \in 1..((UPLOAD_MEM_SIZE - a + TX_BLOCK_SIZE - 1) \div TX_BLOCK_SIZE) |->
     a + (i - 1) * TX_BLOCK_SIZE]

\* writeCodeplug's loop body with the dry-run branch left out
LogsOnlyB_Never(flag) == FALSE

\* if (this.dryRun) { this.log(...); continue; } (kt8900.ts:80-85): does the
\* loop body log the block and go on, without writeBlock?
LogsOnlyB(flag) == flag

\* one attempt of identifyWithRetry (kt8900.ts:90-104): identifyOnce, then the
\* return to readCodeplug or writeCodeplug, or the catch with its delay(500)
KT8900_identify ==
  /\ model = "B"
  /\ pc = "ident"
  /\ \E o1 \in Outcomes(IdentRepliesB, IdentB, MayDeviate) :
     \E o2 \in Outcomes(ExtraRepliesB(devMem, ExtraFrame), BlockReplyB(devMem, ExtraFrame),
                        MayDeviate /\ o1.ok /\ o1.reply = IdentB) :
     \E o3 \in Outcomes(UploadReplies, <<ACK>>,
                        MayDeviate /\ upload /\ o1.ok /\ o1.reply = IdentB /\ o2.ok
                          /\ o2.reply = BlockReplyB(devMem, ExtraFrame)) :
       LET io == identifyOnce(IoNow, upload, o1, o2, o3) IN
         /\ Commit(io)
         /\ IF ~Failed(io)
            THEN /\ UNCHANGED <<attempt, delays, tried>>
                 /\ addr' = 0
                 /\ IF op = "read"
                    THEN Goto("r_loop") /\ buffer' = Zeros(KT8900_MEM_SIZE) /\ logged' = logged
                    ELSE /\ buffer' = buffer
                         /\ IF LogsOnlyB(dryRun) THEN Return /\ logged' = WriteAddrsB(0)
                            ELSE Goto("w_loop") /\ logged' = logged
            ELSE /\ tried' = Append(tried, io.err)
                 /\ UNCHANGED <<addr, buffer, logged>>
                 /\ IF GivesUp(attempt, io.err)
                    THEN Raise(io.err) /\ UNCHANGED <<attempt, delays>>
                    ELSE Goto("ident") /\ attempt' = attempt + 1 /\ delays' = delays + 1
  /\ UNCHANGED <<opKeep, connected, rangeIx, returned>>

\* readBlock that does not compare the echoed address with the one it asked for
readBlockB_AnyAddress(io, address, length, o) ==
  LET frame == buildFrame(CMD_S, address, length, <<>>)
      io1 == TRead(TWrite(io, frame, o, BlockReplyB(io.mem, frame)), 1 + 4 + length)
      response == io1.got
      io2 == ThrowIf(io1, First(io1) # ACK, MsgBadAckRead)
      io3 == ThrowIf(io2, \/ Len(response) < 5
                          \/ response[2] # CMD_X
                          \/ response[5] # length,
                     MsgInvalidHeader)
  IN  [io3 EXCEPT !.got = slice(response, 5, Len(response))]

\* readBlock (kt8900.ts:145-166); io.got is the data it returns
readBlockB(io, address, length, o) ==
  LET frame == buildFrame(CMD_S, address, length, <<>>)
      io1 == TRead(TWrite(io, frame, o, BlockReplyB(io.mem, frame)), 1 + 4 + length)
      response == io1.got
      io2 == ThrowIf(io1, First(io1) # ACK, MsgBadAckRead)
      io3 == ThrowIf(io2, \/ Len(response) < 5
                          \/ response[2] # CMD_X
                          \/ response[3] * 256 + response[4] # address
                          \/ response[5] # length,
                     MsgInvalidHeader)
  IN  [io3 EXCEPT !.got = slice(response, 5, Len(response))]

\* one iteration of readCodeplug's loop
KT8900_readBlock ==
  /\ model = "B"
  /\ pc = "r_loop"
  /\ \E o \in Outcomes(BlockRepliesB(devMem, buildFrame(CMD_S, addr, KT8900_BLOCK_SIZE, <<>>)),
                       BlockReplyB(devMem, buildFrame(CMD_S, addr, KT8900_BLOCK_SIZE, <<>>)),
                       MayDeviate /\ addr \in FaultAddrsB) :
       LET io == readBlockB([IoNow EXCEPT !.magic = 0], addr, KT8900_BLOCK_SIZE, o) IN
         /\ Commit(io)
         /\ IF Failed(io)
            THEN Raise(io.err) /\ UNCHANGED <<addr, buffer, returned>>
            ELSE /\ buffer' = SetBytes(buffer, io.got, addr)
                 /\ addr' = addr + KT8900_BLOCK_SIZE
                 /\ IF addr + KT8900_BLOCK_SIZE < KT8900_MEM_SIZE
                    THEN Goto("r_loop") /\ returned' = returned
                    ELSE Return /\ returned' = buffer'
  /\ attempt' = 0 /\ delays' = 0 /\ tried' = <<>>
  /\ UNCHANGED <<opKeep, connected, rangeIx, logged>>

\* writeBlock that takes 0x06 alone for an acknowledgement
writeBlockB_OnlyAck(io, address, blk, omit, o) ==
  LET io1 == ThrowIf(io, Len(blk) # TX_BLOCK_SIZE, MsgInvalidBlock)
      full == buildFrame(CMD_X, address, Len(blk), blk)
      frame == IF omit THEN slice(full, 1, Len(full)) ELSE full
      io2 == TWrite(io1, frame, o, <<ACK>>)
      io3 == IF Failed(io1) THEN io2 ELSE [io2 EXCEPT !.mem = RadioWriteB(@, frame, o)]
      io4 == TRead(io3, 1)
  IN  ThrowIf(io4, First(io4) # ACK, MsgBadAckWrite)

\* writeBlock (kt8900.ts:168-185)
writeBlockB(io, address, blk, omit, o) ==
  LET io1 == ThrowIf(io, Len(blk) # TX_BLOCK_SIZE, MsgInvalidBlock)
      full == buildFrame(CMD_X, address, Len(blk), blk)
      frame == IF omit THEN slice(full, 1, Len(full)) ELSE full
      io2 == TWrite(io1, frame, o, <<ACK>>)
      io3 == IF Failed(io1) THEN io2 ELSE [io2 EXCEPT !.mem = RadioWriteB(@, frame, o)]
      io4 == TRead(io3, 1)
  IN  ThrowIf(io4, First(io4) # ACK /\ First(io4) # ACK_ALT, MsgBadAckWrite)

\* one iteration of writeCodeplug's loop
KT8900_writeBlock ==
  /\ model = "B"
  /\ pc = "w_loop"
  /\ \E o \in Outcomes(WriteRepliesB, <<ACK>>, MayDeviate /\ addr \in FaultAddrsB) :
       LET io == writeBlockB([IoNow EXCEPT !.magic = 0], addr,
                             ImageSlice(data, addr, addr + TX_BLOCK_SIZE),
                             omitLeadingAck(addr), o)
       IN  /\ Commit(io)
           /\ IF Failed(io) THEN Raise(io.err) /\ addr' = addr
              ELSE IF addr + TX_BLOCK_SIZE < UPLOAD_MEM_SIZE
              THEN Goto("w_loop") /\ addr' = addr + TX_BLOCK_SIZE
              ELSE Return /\ addr' = addr + TX_BLOCK_SIZE
  /\ attempt' = 0 /\ delays' = 0 /\ tried' = <<>>
  /\ UNCHANGED <<opKeep, connected, rangeIx, buffer, logged, returned>>

InitB ==
  /\ model = "B"
  /\ rev = 1
  /\ checksumValidators = <<>>
  /\ devMem = PatternRuns(0, KT8900_MEM_SIZE)
  /\ InitCommon
  /\ NoCall /\ NoBackend /\ NoScenario

NextB ==
  \/ KT8900_connect
  \/ KT8900_disconnect
  \/ KT8900_readCodeplug
  \/ KT8900_writeCodeplug
  \/ KT8900_identify
  \/ KT8900_readBlock
  \/ KT8900_writeBlock

SpecB == InitB /\ [][NextB]_vars

SpecAB == (InitA \/ InitB) /\ [][NextA \/ NextB]_vars

\* a step of an operation that was called and has not completed: the
\* continuation of an async driver method, which runs once the transport call
\* it awaits has returned or failed
Running == pc # "idle" /\ opsDone' = opsDone

\* Weak fairness of Running, WF_vars(Running), written out as
\* []<>~ENABLED <<Running>>_vars \/ []<><<Running>>_vars: an operation that was
\* called has a next step in every state (the outcomes a step chooses from are
\* never empty), so ENABLED <<Running>>_vars is pc # "idle"
Fairness == []<>(pc = "idle") \/ []<><<Running>>_vars

\* the drivers with transport calls that return or fail within their timeout:
\* the continuation of an operation that was called is run
SpecLive == (InitA \/ InitB) /\ [][NextA \/ NextB]_vars /\ Fairness

-----------------------------------------------------------------------------
(* Scenario functions that compare images *)

\* bytesEqual (scenarios/bf888.ts:126-132)
bytesEqual(a, b) == Len(a) = Len(b) /\ \A i \in 1..Len(a) : a[i] = b[i]

\* the least element of a nonempty set of numbers
Lowest(S) == CHOOSE x \in S : \A y \in S : x <= y

\* the channels at which verifyChannelBlocks' comparison fails
Unequal(expected, actual) ==
  { channel \in 0..(CHANNEL_COUNT - 1) :
      ~bytesEqual(slice(expected, CHANNEL_BASE + channel * CHANNEL_SIZE,
                        CHANNEL_BASE + channel * CHANNEL_SIZE + CHANNEL_SIZE),
                  slice(actual, CHANNEL_BASE + channel * CHANNEL_SIZE,
                        CHANNEL_BASE + channel * CHANNEL_SIZE + CHANNEL_SIZE)) }

\* verifyChannelBlocks that throws at the last channel whose records differ
verifyChannelBlocks_Last(expected, actual) ==
  IF Unequal(expected, actual) = {} THEN Returns(<<>>)
  ELSE Throws("Channel N did not match after write/read",
              toString((CHOOSE x \in Unequal(expected, actual) :
                          \A y \in Unequal(expected, actual) : y <= x) + 1, 10))

\* verifyChannelBlocks (scenarios/bf888.ts:96-105): the loop throws at the
\* first channel whose records differ, with `${channel + 1}` in the message
verifyChannelBlocks(expected, actual) ==
  IF Unequal(expected, actual) = {} THEN Returns(<<>>)
  ELSE Throws("Channel N did not match after write/read",
              toString(Lowest(Unequal(expected, actual)) + 1, 10))

\* verifyWrittenRegion that compares up to the shorter image's length
verifyWrittenRegion_Whole(expected, actual) ==
  LET length == Min(MemLen(expected), MemLen(actual))
      differ == { i \in 0..(length - 1) : ByteAt(expected, i) # ByteAt(actual, i) }
  IN  IF differ = {} THEN Returns(<<>>)
      ELSE Throws("Mismatch at 0xN", padStart(toString(Lowest(differ), 16), 4))

\* verifyWrittenRegion (scenarios/kt8900.ts:50-57), the images held as runs:
\* the loop throws at the first offset below length whose bytes differ, with
\* `0x${i.toString(16).padStart(4, '0')}` in the message
verifyWrittenRegion(expected, actual) ==
  LET length == Min(MemLen(expected), Min(MemLen(actual), Scenario_UPLOAD_MEM_SIZE))
      differ == { i \in 0..(length - 1) : ByteAt(expected, i) # ByteAt(actual, i) }
  IN  IF differ = {} THEN Returns(<<>>)
      ELSE Throws("Mismatch at 0xN", padStart(toString(Lowest(differ), 16), 4))

\* bytes that differ between the images of one call of a comparison, at most
MaxDiffs == 2

\* an image of len bytes of pattern k, channel 0 erased or not
BaseImage(k, len, erased) ==
  [i \in 1..len |->
     IF erased /\ i - 1 >= CHANNEL_BASE /\ i - 1 < CHANNEL_BASE + 4 THEN 255
     ELSE PatternByte(k, i - 1)]

\* the image with the bytes at the offsets D changed
Altered(image, D) ==
  [i \in 1..Len(image) |-> IF i - 1 \in D THEN (image[i] + 1) % 256 ELSE image[i]]

\* the image, held as runs, with the bytes at the offsets D changed
RECURSIVE AlteredRuns(_, _)
AlteredRuns(b, D) ==
  IF D = {} THEN b
  ELSE AlteredRuns(SetRun(b, Lowest(D), 1, (RunOf(b, Lowest(D)).pat + 1) % 3),
                   D \ {Lowest(D)})

\* the sets of at most MaxDiffs offsets out of S
Diffs(S) == { D \in SUBSET S : Cardinality(D) <= MaxDiffs }

\* base images a caller passes to synthesizeFullCodeplug: as long as the
\* memory, one byte shorter, longer; channel 0 erased or not
Bases ==
  { BaseImage(k, len, erased) :
      k \in {0, 1, 4}, len \in {MEM_SIZE - 1, MEM_SIZE, MEM_SIZE + 32}, erased \in BOOLEAN }

\* frequencies a caller passes to encodeLbcdFrequency: those of the 16
\* channels, and some that are no multiple of 10 or have more than 8 digits
Frequencies ==
  { BASE_FREQUENCY_HZ + channel * CHANNEL_STEP_HZ : channel \in 0..(CHANNEL_COUNT - 1) }
    \cup { 0, 4, 5, 145500000, 999999994, 999999995, 1234567890 }

\* offsets at which the images passed to verifyChannelBlocks differ: the
\* bytes before and after the channel records, the first and the last byte of
\* a record, bytes inside records
OffsetsA == { 0, 15, 16, 31, 32, 100, 271, 272, 991 }

\* lengths of the images passed to verifyWrittenRegion, and offsets at which
\* they differ: around the end of the upload region and of the shorter images
LengthsB == { 12528, 12544, 16384 }
OffsetsB == { 0, 12527, 12528, 12543, 12544 }

\* a caller calls synthesizeFullCodeplug: on a base image, or on the image
\* the call before returned; fnArgs is the argument as it is after the call
Scenario_synthesizeFullCodeplug ==
  /\ fn \in {"none", "synthesizeFullCodeplug"}
  /\ \E base \in (IF fn = "none" THEN Bases
                  ELSE IF fnOut.threw \/ fnArgs = <<fnOut.value>> THEN {}
                  ELSE {fnOut.value}) :
       /\ fn' = "synthesizeFullCodeplug"
       /\ fnArgs' = <<IF CopiesBase \/ synthesizeFullCodeplug(base).threw THEN base
                      ELSE synthesizeFullCodeplug(base).value>>
       /\ fnOut' = synthesizeFullCodeplug(base)
  /\ UNCHANGED <<driverVars, transportVars, scenarioVars>>

\* a caller calls encodeLbcdFrequency
Scenario_encodeLbcdFrequency ==
  /\ fn = "none"
  /\ \E freqHz \in Frequencies :
       /\ fn' = "encodeLbcdFrequency"
       /\ fnArgs' = <<freqHz>>
       /\ fnOut' = Returns(encodeLbcdFrequency(freqHz))
  /\ UNCHANGED <<driverVars, transportVars, scenarioVars>>

\* a caller calls verifyChannelBlocks
Scenario_verifyChannelBlocks ==
  /\ fn = "none"
  /\ \E expected \in { BaseImage(1, MEM_SIZE, FALSE),
                       synthesizeFullCodeplug(BaseImage(0, MEM_SIZE, FALSE)).value } :
     \E D \in Diffs(OffsetsA) :
       /\ fn' = "verifyChannelBlocks"
       /\ fnArgs' = <<expected, Altered(expected, D)>>
       /\ fnOut' = verifyChannelBlocks(expected, Altered(expected, D))
  /\ UNCHANGED <<driverVars, transportVars, scenarioVars>>

\* a caller calls verifyWrittenRegion
Scenario_verifyWrittenRegion ==
  /\ fn = "none"
  /\ \E n \in LengthsB, m \in LengthsB, D \in Diffs(OffsetsB) :
       LET expected == PatternRuns(2, n)
           actual == AlteredRuns(PatternRuns(2, m), {i \in D : i < m})
       IN  /\ fn' = "verifyWrittenRegion"
           /\ fnArgs' = <<expected, actual>>
           /\ fnOut' = verifyWrittenRegion(expected, actual)
  /\ UNCHANGED <<driverVars, transportVars, scenarioVars>>

\* no driver is created
NoDriver ==
  /\ model = "none"
  /\ rev = 0
  /\ dryRun = FALSE
  /\ checksumValidators = <<>>
  /\ devMem = <<>>
  /\ InitCommon

\* what new BF888Driver(backend, options) constructs (bf888.ts:29-35)
BF888Driver(b, options) ==
  [class |-> "BF888Driver", backend |-> b, connected |-> FALSE,
   dryRun |-> options.dryRun, checksumValidators |-> options.checksumValidators]

\* what new KT8900Driver(backend, options) constructs (kt8900.ts:40-45)
KT8900Driver(b, options) ==
  [class |-> "KT8900Driver", backend |-> b, dryRun |-> options.dryRun]

\* factory.createRadio with RadioModel = 'bf-888' | 'kt-8900' (bf888.ts:436-448)
createRadio(tag, b, options) ==
  IF tag = "bf-888" THEN Returns(BF888Driver(b, options))
  ELSE IF tag = "kt-8900" THEN Returns(KT8900Driver(b, options))
  ELSE Throws("Unsupported radio model: N", tag)

\* factory.createRadio with RadioModel = 'bf-888' (node/serialBackend.ts:233-241)
createRadio_index(tag, b, options) ==
  IF tag = "bf-888" THEN Returns(BF888Driver(b, options))
  ELSE Throws("Unsupported radio model: N", tag)

\* model tags a caller passes to createRadio
Tags == {"bf-888", "kt-8900", "", "BF-888", "kt-8900 ", "uv-5r"}

\* options a caller passes to it (a field left out is given as its default)
Options == [dryRun : BOOLEAN, checksumValidators : ValidatorLists]

\* a caller calls createRadio of either revision of the factory, with a
\* backend of some class
Factory_createRadio ==
  /\ fn = "none"
  /\ \E tag \in Tags, kind \in Kinds, options \in Options :
       /\ fn' = "createRadio"
       /\ fnArgs' = <<"core", tag, kind, options>>
       /\ fnOut' = createRadio(tag, kind, options)
  /\ UNCHANGED <<driverVars, transportVars, scenarioVars>>

Factory_createRadio_index ==
  /\ fn = "none"
  /\ \E tag \in Tags, kind \in Kinds, options \in Options :
       /\ fn' = "createRadio"
       /\ fnArgs' = <<"index", tag, kind, options>>
       /\ fnOut' = createRadio_index(tag, kind, options)
  /\ UNCHANGED <<driverVars, transportVars, scenarioVars>>

InitF == NoDriver /\ NoCall /\ NoBackend /\ NoScenario

NextF ==
  \/ Scenario_synthesizeFullCodeplug
  \/ Scenario_encodeLbcdFrequency
  \/ Scenario_verifyChannelBlocks
  \/ Scenario_verifyWrittenRegion
  \/ Factory_createRadio
  \/ Factory_createRadio_index

SpecF == InitF /\ [][NextF]_vars

-----------------------------------------------------------------------------
(* The transports (node/serialBackend.ts, both revisions found in the file,
   and web/webSerialBackend.ts) with the serial port they wrap.  The radio
   sends the bytes 1, 2, 3, ...; the port hands them to the backend in chunks.
   A caller makes one call at a time.  A timer fires only while the port
   holds no byte for the backend: a byte it holds reaches a listener or a
   requested read first. *)

\* bytes the radio sends in one behaviour
MaxSent == 4

\* calls a caller makes on the backend in one behaviour
MaxCalls == 4

\* the greatest length a caller passes to readExactly
MaxLength == 2

IsNode == backend.kind \in {"Node1", "Node2"}

\* a call that has settled, a call that is still awaited
Settled(name, res, error, got) ==
  [name |-> name, state |-> "settled", length |-> 0, chunks |-> <<>>,
   result |-> res, error |-> error, got |-> got, k |-> tcall.k + 1,
   timeouts |-> tcall.timeouts]
Awaited(name, length, chunks) ==
  [name |-> name, state |-> "awaited", length |-> length, chunks |-> chunks,
   result |-> "none", error |-> "", got |-> <<>>, k |-> tcall.k + 1,
   timeouts |-> tcall.timeouts]

\* the awaited readExactly resolves with the first `length` of the bytes
Resolve(bytes) ==
  [tcall EXCEPT !.state = "settled", !.result = "ok", !.chunks = <<>>,
                !.got = SubSeq(bytes, 1, tcall.length)]

\* the awaited readExactly rejects with a timeout error
Reject(error) ==
  [tcall EXCEPT !.state = "settled", !.result = "error", !.chunks = <<>>,
                !.error = error, !.timeouts = @ + 1]

\* a caller makes a call
Call == tcall.state = "settled" /\ tcall.k < MaxCalls

\* the radio sends its next byte to the open port, which keeps it until it can
\* hand it to the backend
Device_send ==
  /\ port.opened
  /\ sent < MaxSent
  /\ sent' = sent + 1
  /\ port' = [port EXCEPT !.wire = Append(@, sent + 1)]
  /\ UNCHANGED <<driverVars, callVars, scenarioVars, backend, tcall, delivered>>

\* NodeSerialBackend.open (serialBackend.ts:17-23 and 122-128)
Node_open ==
  /\ IsNode /\ Call
  /\ IF backend.isOpen
     THEN tcall' = Settled("open", "ok", "", <<>>) /\ UNCHANGED <<backend, port>>
     ELSE \E ok \in BOOLEAN :
            IF ok /\ ~port.opened
            THEN /\ port' = [port EXCEPT !.opened = TRUE]
                 /\ backend' = [backend EXCEPT !.isOpen = TRUE]
                 /\ tcall' = Settled("open", "ok", "", <<>>)
            ELSE /\ tcall' = Settled("open", "error", "port.open failed", <<>>)
                 /\ UNCHANGED <<backend, port>>
  /\ UNCHANGED <<driverVars, callVars, scenarioVars, sent, delivered>>

\* NodeSerialBackend.close without its first line
Node_close_Unguarded(b, p) ==
  IF p.opened
  THEN [backend |-> [b EXCEPT !.isOpen = FALSE], port |-> [p EXCEPT !.opened = FALSE],
        error |-> ""]
  ELSE [backend |-> b, port |-> p, error |-> "Port is not open"]

\* NodeSerialBackend.close (serialBackend.ts:25-31 and 130-136) on backend b
\* and port p; port.close fails on a port that is not open
Node_close_(b, p) ==
  IF ~b.isOpen THEN [backend |-> b, port |-> p, error |-> ""]
  ELSE IF p.opened
  THEN [backend |-> [b EXCEPT !.isOpen = FALSE], port |-> [p EXCEPT !.opened = FALSE],
        error |-> ""]
  ELSE [backend |-> b, port |-> p, error |-> "Port is not open"]

Node_close ==
  /\ IsNode /\ Call
  /\ backend' = Node_close_(backend, port).backend
  /\ port' = Node_close_(backend, port).port
  /\ tcall' = IF Node_close_(backend, port).error = ""
              THEN Settled("close", "ok", "", <<>>)
              ELSE Settled("close", "error", Node_close_(backend, port).error, <<>>)
  /\ UNCHANGED <<driverVars, callVars, scenarioVars, sent, delivered>>

\* NodeSerialBackend.write (serialBackend.ts:33-40 and 138-145); port.write
\* fails on a port that is not open
Node_write ==
  /\ IsNode /\ Call
  /\ tcall' = IF port.opened THEN Settled("write", "ok", "", <<>>)
              ELSE Settled("write", "error", "Port is not open", <<>>)
  /\ UNCHANGED <<driverVars, callVars, scenarioVars, backend, port, sent, delivered>>

\* the first revision's readExactly is called (serialBackend.ts:42-59, 82-91):
\* pending goes to chunks; enough bytes resolve it, else the listeners go on
Node1_readExactly ==
  /\ backend.kind = "Node1" /\ Call
  /\ \E length \in 1..MaxLength :
       IF Len(backend.pending) >= length
       THEN /\ tcall' = Settled("readExactly", "ok", "", SubSeq(backend.pending, 1, length))
            /\ backend' = [backend EXCEPT !.pending = SubSeq(@, length + 1, Len(@))]
            /\ delivered' = delivered \o SubSeq(backend.pending, 1, length)
       ELSE /\ tcall' = Awaited("readExactly", length, backend.pending)
            /\ backend' = [backend EXCEPT !.pending = <<>>]
            /\ delivered' = delivered
  /\ UNCHANGED <<driverVars, callVars, scenarioVars, port, sent>>

\* onData of the first revision (serialBackend.ts:61-70): the port emits
\* 'data' with n bytes while the listener is on
Node1_onData ==
  /\ backend.kind = "Node1"
  /\ tcall.state = "awaited"
  /\ \E n \in 1..Len(port.wire) :
       LET chunks == tcall.chunks \o SubSeq(port.wire, 1, n) IN
         /\ port' = [port EXCEPT !.wire = SubSeq(@, n + 1, Len(@))]
         /\ IF Len(chunks) >= tcall.length
            THEN /\ tcall' = Resolve(chunks)
                 /\ backend' = [backend EXCEPT !.pending = SubSeq(chunks, tcall.length + 1, Len(chunks))]
                 /\ delivered' = delivered \o SubSeq(chunks, 1, tcall.length)
            ELSE /\ tcall' = [tcall EXCEPT !.chunks = chunks]
                 /\ UNCHANGED <<backend, delivered>>
  /\ UNCHANGED <<driverVars, callVars, scenarioVars, sent>>

\* onTimeout of the first revision (serialBackend.ts:77-80, 84-88): the
\* listeners go off and the promise rejects; chunks is a local of the call
Node1_onTimeout ==
  /\ backend.kind = "Node1"
  /\ tcall.state = "awaited"
  /\ port.wire = <<>>
  /\ tcall' = Reject("Timeout waiting for N bytes")
  /\ UNCHANGED <<driverVars, callVars, scenarioVars, backend, port, sent, delivered>>

\* the second revision's readExactly is called (serialBackend.ts:147-162)
Node2_readExactly ==
  /\ backend.kind = "Node2" /\ Call
  /\ \E length \in 1..MaxLength :
       IF Len(backend.pending) >= length
       THEN /\ tcall' = Settled("readExactly", "ok", "", SubSeq(backend.pending, 1, length))
            /\ backend' = [backend EXCEPT !.pending = SubSeq(@, length + 1, Len(@))]
            /\ delivered' = delivered \o SubSeq(backend.pending, 1, length)
       ELSE /\ tcall' = Awaited("readExactly", length, <<>>)
            /\ backend' = [backend EXCEPT !.waiters = @ + 1]
            /\ delivered' = delivered
  /\ UNCHANGED <<driverVars, callVars, scenarioVars, port, sent>>

\* the 'data' listener of the second revision's constructor
\* (serialBackend.ts:112-119), and readExactly's loop when it is woken:
\* return, wait again, or throw because the deadline passed (l.151-161)
Node2_onData ==
  /\ backend.kind = "Node2"
  /\ \E n \in 1..Len(port.wire) :
       LET pending == backend.pending \o SubSeq(port.wire, 1, n) IN
         /\ port' = [port EXCEPT !.wire = SubSeq(@, n + 1, Len(@))]
         /\ IF tcall.state # "awaited"
            THEN /\ backend' = [backend EXCEPT !.pending = pending, !.waiters = 0]
                 /\ UNCHANGED <<tcall, delivered>>
            ELSE IF Len(pending) >= tcall.length
            THEN /\ tcall' = Resolve(pending)
                 /\ backend' = [backend EXCEPT !.pending = SubSeq(pending, tcall.length + 1, Len(pending)),
                                               !.waiters = 0]
                 /\ delivered' = delivered \o SubSeq(pending, 1, tcall.length)
            ELSE /\ delivered' = delivered
                 /\ \/ /\ tcall' = tcall
                       /\ backend' = [backend EXCEPT !.pending = pending, !.waiters = 1]
                    \/ /\ tcall' = Reject("Timeout waiting for N bytes")
                       /\ backend' = [backend EXCEPT !.pending = pending, !.waiters = 0]
  /\ UNCHANGED <<driverVars, callVars, scenarioVars, sent>>

\* the timer of waitForData (serialBackend.ts:166-169, 176-180)
Node2_timeout ==
  /\ backend.kind = "Node2"
  /\ tcall.state = "awaited"
  /\ port.wire = <<>>
  /\ tcall' = Reject("Timeout waiting for data")
  /\ backend' = [backend EXCEPT !.waiters = 0]
  /\ UNCHANGED <<driverVars, callVars, scenarioVars, port, sent, delivered>>

\* WebSerialBackend.open (webSerialBackend.ts:22-28); getReader throws on a
\* stream that a reader has locked
Web_open ==
  /\ backend.kind = "Web" /\ Call
  /\ \E ok \in BOOLEAN :
       IF ~port.opened /\ ~ok
       THEN /\ tcall' = Settled("open", "error", "port.open failed", <<>>)
            /\ UNCHANGED <<backend, port>>
       ELSE IF port.opened /\ backend.reader
       THEN /\ tcall' = Settled("open", "error", "ReadableStream is locked", <<>>)
            /\ UNCHANGED <<backend, port>>
       ELSE /\ port' = [port EXCEPT !.opened = TRUE]
            /\ backend' = [backend EXCEPT !.reader = TRUE, !.writer = TRUE]
            /\ tcall' = Settled("open", "ok", "", <<>>)
  /\ UNCHANGED <<driverVars, callVars, scenarioVars, sent, delivered>>

\* WebSerialBackend.close (webSerialBackend.ts:30-46): reader.cancel() settles
\* the reads that are still requested
Web_close ==
  /\ backend.kind = "Web" /\ Call
  /\ backend' = [backend EXCEPT !.reader = FALSE, !.writer = FALSE]
  /\ port' = [port EXCEPT !.opened = FALSE,
                          !.reads = IF backend.reader THEN 0 ELSE @]
  /\ tcall' = Settled("close", "ok", "", <<>>)
  /\ UNCHANGED <<driverVars, callVars, scenarioVars, sent, delivered>>

\* WebSerialBackend.write (webSerialBackend.ts:48-51)
Web_write ==
  /\ backend.kind = "Web" /\ Call
  /\ tcall' = IF backend.writer THEN Settled("write", "ok", "", <<>>)
              ELSE Settled("write", "error", "WebSerial writer not available", <<>>)
  /\ UNCHANGED <<driverVars, callVars, scenarioVars, backend, port, sent, delivered>>

\* WebSerialBackend.readExactly is called (webSerialBackend.ts:53-69); with
\* too few bytes pending, readChunk requests a read of the stream (l.77-78)
Web_readExactly ==
  /\ backend.kind = "Web" /\ Call
  /\ \E length \in 1..MaxLength :
       IF ~backend.reader
       THEN /\ tcall' = Settled("readExactly", "error", "WebSerial reader not available", <<>>)
            /\ UNCHANGED <<backend, port, delivered>>
       ELSE IF Len(backend.pending) >= length
       THEN /\ tcall' = Settled("readExactly", "ok", "", SubSeq(backend.pending, 1, length))
            /\ backend' = [backend EXCEPT !.pending = SubSeq(@, length + 1, Len(@))]
            /\ delivered' = delivered \o SubSeq(backend.pending, 1, length)
            /\ port' = port
       ELSE /\ tcall' = Awaited("readExactly", length, <<>>)
            /\ port' = [port EXCEPT !.reads = @ + 1]
            /\ UNCHANGED <<backend, delivered>>
  /\ UNCHANGED <<driverVars, callVars, scenarioVars, sent>>

\* the stream settles the read requested first with a chunk of n bytes
\* (webSerialBackend.ts:79-86).  When readChunk's promise was rejected by its
\* timer, resolve(value) does nothing.  Else readExactly's loop goes on
\* (l.57-68): return, request another read, or throw because the deadline passed.
Web_read_then ==
  /\ backend.kind = "Web"
  /\ port.reads > 0
  /\ \E n \in 1..Len(port.wire) :
       LET value == SubSeq(port.wire, 1, n)
           pending == backend.pending \o value
           live == tcall.state = "awaited" /\ port.reads = 1
       IN  IF ~live
           THEN /\ port' = [port EXCEPT !.wire = SubSeq(@, n + 1, Len(@)), !.reads = @ - 1]
                /\ UNCHANGED <<backend, tcall, delivered>>
           ELSE IF Len(pending) >= tcall.length
           THEN /\ port' = [port EXCEPT !.wire = SubSeq(@, n + 1, Len(@)), !.reads = @ - 1]
                /\ tcall' = Resolve(pending)
                /\ backend' = [backend EXCEPT !.pending = SubSeq(pending, tcall.length + 1, Len(pending))]
                /\ delivered' = delivered \o SubSeq(pending, 1, tcall.length)
           ELSE /\ backend' = [backend EXCEPT !.pending = pending]
                /\ delivered' = delivered
                /\ \/ /\ tcall' = tcall
                      /\ port' = [port EXCEPT !.wire = SubSeq(@, n + 1, Len(@))]
                   \/ /\ tcall' = Reject("Timeout waiting for N bytes")
                      /\ port' = [port EXCEPT !.wire = SubSeq(@, n + 1, Len(@)), !.reads = @ - 1]
  /\ UNCHANGED <<driverVars, callVars, scenarioVars, sent>>

\* the timer of readChunk (webSerialBackend.ts:75): the promise rejects, the
\* read it requested stays requested
Web_timeout ==
  /\ backend.kind = "Web"
  /\ tcall.state = "awaited"
  /\ port.wire = <<>>
  /\ tcall' = Reject("Timeout waiting for data")
  /\ UNCHANGED <<driverVars, callVars, scenarioVars, backend, port, sent, delivered>>

\* a backend as its constructor leaves it, on a port that is not open
NewBackend(kind) ==
  IF kind = "Web"
  THEN [kind |-> kind, reader |-> FALSE, writer |-> FALSE, pending |-> <<>>]
  ELSE IF kind = "Node2"
  THEN [kind |-> kind, isOpen |-> FALSE, pending |-> <<>>, waiters |-> 0]
  ELSE [kind |-> kind, isOpen |-> FALSE, pending |-> <<>>]

InitT ==
  /\ NoDriver /\ NoCall /\ NoScenario
  /\ backend \in { NewBackend(kind) : kind \in Kinds }
  /\ port = [opened |-> FALSE, wire |-> <<>>, reads |-> 0]
  /\ tcall = NoTransportCall
  /\ sent = 0
  /\ delivered = <<>>

NextT ==
  \/ Device_send
  \/ Node_open
  \/ Node_close
  \/ Node_write
  \/ Node1_readExactly
  \/ Node1_onData
  \/ Node1_onTimeout
  \/ Node2_readExactly
  \/ Node2_onData
  \/ Node2_timeout
  \/ Web_open
  \/ Web_close
  \/ Web_write
  \/ Web_readExactly
  \/ Web_read_then
  \/ Web_timeout

SpecT == InitT /\ [][NextT]_vars

-----------------------------------------------------------------------------
(* Scenarios (scenarios/bf888.ts, scenarios/kt8900.ts) run with the session
   runner of the tests: each session is connect, the session's function,
   disconnect. *)

\* a session that reads the codeplug: connect, fn = readCodeplug, the return
\* of its value, finally disconnect
ReadSession == <<"connect", "read", "return", "disconnect">>

\* a session that writes the codeplug
WriteSession == <<"connect", "write", "disconnect">>

\* runDownloadScenario, runUploadScenario of what it returned,
\* runDownloadScenario (scenarios/bf888.ts:25-43)
DownloadUploadDownload == ReadSession \o WriteSession \o ReadSession

\* runSynthWriteVerifyScenario (scenarios/kt8900.ts:33-48)
runSynthWriteVerifyScenarioB == ReadSession \o WriteSession \o ReadSession \o <<"verify">>

\* runSynthWriteVerifyScenario (scenarios/bf888.ts:45-61)
runSynthWriteVerifyScenario ==
  ReadSession \o <<"synthesize">> \o WriteSession \o ReadSession \o <<"verify">>

\* `return await fn(driver)` of a read session: the image is the session's
\* value, original in the first session and readBack in the last
Session_return ==
  /\ pc = "idle"
  /\ plan # <<>> /\ Head(plan) = "return"
  /\ result = "ok"
  /\ plan' = Tail(plan)
  /\ IF original = <<>>
     THEN original' = returned /\ readBack' = readBack
     ELSE readBack' = returned /\ original' = original
  /\ UNCHANGED <<driverVars, aside, scenario>>

\* the bytes of the image held as the runs b, and the runs of the bytes
AsBytes(b) == MemBytes(b, 0, MemLen(b))
AsRuns(bytes) == SetBytes(Zeros(Len(bytes)), bytes, 0)

\* const synthesized = synthesizeFullCodeplug(original) (scenarios/bf888.ts:51)
Scenario_synthesize ==
  /\ pc = "idle"
  /\ plan # <<>> /\ Head(plan) = "synthesize"
  /\ result = "ok"
  /\ LET out == synthesizeFullCodeplug(AsBytes(original)) IN
       IF out.threw
       THEN plan' = <<>> /\ scenario' = [scenario EXCEPT !.failed = TRUE]
       ELSE plan' = Tail(plan) /\ scenario' = [scenario EXCEPT !.image = AsRuns(out.value)]
  /\ UNCHANGED <<driverVars, aside, original, readBack>>

\* the comparison at the end of the scenario and the log of its success:
\* verifyChannelBlocks(synthesized, readBack) (scenarios/bf888.ts:59-60),
\* verifyWrittenRegion(original, readBack) (scenarios/kt8900.ts:46-47)
Scenario_verify ==
  /\ pc = "idle"
  /\ plan # <<>> /\ Head(plan) = "verify"
  /\ result = "ok"
  /\ plan' = Tail(plan)
  /\ IF model = "A"
     THEN /\ fn' = "verifyChannelBlocks"
          /\ fnArgs' = <<scenario.image, readBack>>
          /\ fnOut' = verifyChannelBlocks(AsBytes(scenario.image), AsBytes(readBack))
     ELSE /\ fn' = "verifyWrittenRegion"
          /\ fnArgs' = <<original, readBack>>
          /\ fnOut' = verifyWrittenRegion(original, readBack)
  /\ scenario' = [scenario EXCEPT !.passed = ~fnOut'.threw]
  /\ UNCHANGED <<driverVars, transportVars, original, readBack>>

\* the scenarios of each model
Scenarios ==
  IF model = "A"
  THEN { [name |-> "roundTrip", plan |-> DownloadUploadDownload],
         [name |-> "synthWriteVerify", plan |-> runSynthWriteVerifyScenario] }
  ELSE { [name |-> "synthWriteVerify", plan |-> runSynthWriteVerifyScenarioB] }

InitS ==
  /\ model \in {"A", "B"}
  /\ rev \in (IF model = "A" THEN {1, 2} ELSE {1})
  /\ checksumValidators \in (IF model = "A" THEN ValidatorLists ELSE {<<>>})
  /\ \E k \in MemoryPatterns :
       devMem = PatternRuns(k, IF model = "A" THEN BF888_MEM_SIZE ELSE KT8900_MEM_SIZE)
  /\ InitCommon
  /\ NoCall /\ NoBackend
  /\ \E sc \in Scenarios : plan = sc.plan /\ scenario = Scenario(sc.name)
  /\ original = <<>>
  /\ readBack = <<>>

NextS ==
  \/ NextA
  \/ NextB
  \/ Session_return
  \/ Scenario_synthesize
  \/ Scenario_verify

SpecS == InitS /\ [][NextS]_vars

-----------------------------------------------------------------------------
(* Claims *)

Closed(call) == call.c = "close"

\* C1: when a step of the BF-888 connect fails after the transport was opened,
\* close() has been called before the error reaches the caller, and the driver
\* is not connected.
C1_ConnectFailureCloses ==
  (model = "A" /\ op = "connect" /\ pc = "idle" /\ result = "error" /\ err # MsgOpenFailed)
    => (~connected /\ \E i \in DOMAIN calls : Closed(calls[i]))

\* a read of one byte that returned a byte other than 0x06
NonAckRead(call) == call.c = "read" /\ call.n = 1 /\ call.ok /\ call.bytes # <<ACK>>

\* C2: when the BF-888 driver waits for an acknowledgement, the first byte
\* that is not 0x06 fails the operation at once: no read and no write follows it.
C2_NonAckFailsAtOnce ==
  model = "A" =>
    \A i \in DOMAIN calls :
      NonAckRead(calls[i]) =>
        /\ result = "error" \/ pc = "c_catch"
        /\ \A j \in DOMAIN calls : j > i => calls[j].c \notin {"read", "write"}

\* C3: writeCodeplug of a connected driver with an image shorter than 0x03E0
\* (BF-888) or 0x3100 (KT-8900) bytes fails with the validation error and
\* makes no transport call, and no identification attempt.
C3_ShortImageNoIO ==
  (op = "write" /\ connected /\ data.len < (IF model = "A" THEN 992 ELSE 12544))
    => /\ pc = "idle" /\ result = "error" /\ err = MsgTooSmall
       /\ ~ioDone /\ calls = <<>> /\ frames = <<>>
       /\ magics = 0 /\ attempt = 0 /\ tried = <<>>

C3_Witness ==
  /\ model = "B" /\ op = "write" /\ connected /\ data.len = 12543
  /\ result = "error" /\ err = MsgTooSmall /\ ~ioDone

\* the contents of buffer b and of the radio's memory are the same n bytes
SameBytes(b, mem, n) ==
  /\ MemLen(b) = n
  /\ MemLen(mem) = n
  /\ \A i \in 0..(n - 1) : ByteAt(b, i) = ByteAt(mem, i)

\* C4: readCodeplug of a connected BF-888 driver against a radio that follows
\* the protocol returns 0x03E0 bytes equal to the radio's memory, having asked
\* for the blocks 0, 8, ..., 0x03D8 once each, in ascending order.
C4_ReadReturnsMemoryA ==
  (model = "A" /\ op = "read" /\ pc = "idle" /\ clean /\ err # MsgNotConnected)
    => /\ result = "ok"
       /\ SameBytes(returned, devMem, 992)
       /\ frames = << [cmd |-> CMD_R, from |-> 0, len |-> 8, count |-> 124] >>

C4_Witness ==
  /\ model = "A" /\ op = "read" /\ pc = "idle" /\ clean /\ result = "ok"
  /\ MemLen(returned) = 992
  /\ Len(devMem) > 1

\* C5: readCodeplug of a connected KT-8900 driver against a radio that
\* identifies and follows the protocol returns 0x4000 bytes equal to the
\* radio's memory, having asked for the blocks 0, 0x40, ..., 0x3FC0 once each,
\* in ascending order.
C5_ReadReturnsMemoryB ==
  (model = "B" /\ op = "read" /\ pc = "idle" /\ clean /\ err # MsgNotConnected)
    => /\ result = "ok"
       /\ SameBytes(returned, devMem, 16384)
       /\ SelectSeq(frames, LAMBDA run : run.len = 64)
            = << [cmd |-> CMD_S, from |-> 0, len |-> 64, count |-> 256] >>
       /\ SelectSeq(frames, LAMBDA run : run.len # 64)
            = << [cmd |-> CMD_S, from |-> 15856, len |-> 16, count |-> 1] >>

C5_Witness ==
  /\ model = "B" /\ op = "read" /\ pc = "idle" /\ clean /\ result = "ok"
  /\ MemLen(returned) = 16384
  /\ Len(devMem) > 1

\* the first validator that rejects the image (0 when none does)
FirstRejecting ==
  IF \A k \in DOMAIN checksumValidators : checksumValidators[k] THEN 0
  ELSE CHOOSE k \in DOMAIN checksumValidators :
         /\ ~checksumValidators[k]
         /\ \A j \in 1..(k - 1) : checksumValidators[j]

\* C6: the BF-888 writeCodeplug invokes the validators in registration order
\* before any block is sent; when one fails, the later ones are not invoked,
\* the write fails with its error and no transport call has been made.
C6_ValidatorsFirst ==
  (model = "A" /\ op = "write" /\ err \notin {MsgNotConnected, MsgTooSmall})
    => IF FirstRejecting = 0
       THEN validated = [k \in 1..Len(checksumValidators) |-> k]
       ELSE /\ validated = [k \in 1..FirstRejecting |-> k]
            /\ pc = "idle" /\ result = "error" /\ err = MsgChecksum
            /\ ~ioDone /\ calls = <<>> /\ frames = <<>>

C6_Witness ==
  /\ model = "A" /\ op = "write" /\ checksumValidators = <<TRUE, FALSE, TRUE>>
  /\ validated = <<1, 2>> /\ result = "error" /\ err = MsgChecksum /\ ~ioDone

AckRead(call) == call.c = "read" /\ call.ok /\ call.bytes = <<ACK>>

\* C7: a successful BF-888 writeCodeplug without dryRun sends one 'W' frame of
\* 8 payload bytes for each aligned address of [0, 0x110), [0x2B0, 0x2C0) and
\* [0x380, 0x3E0), ascending, none for another address, and each next frame
\* only after one ACK was read for the one before.
C7_WriteRangesA ==
  /\ (model = "A" /\ op = "write" /\ pc = "idle" /\ result = "ok" /\ ~dryRun)
       => frames = << [cmd |-> CMD_W, from |-> 0, len |-> 8, count |-> 34],
                      [cmd |-> CMD_W, from |-> 688, len |-> 8, count |-> 2],
                      [cmd |-> CMD_W, from |-> 896, len |-> 8, count |-> 12] >>
  /\ (model = "A" /\ op = "write" /\ calls # <<>>)
       => /\ calls[1].c = "write" /\ calls[1].n = 12
          /\ calls[1].bytes[1] = CMD_W /\ calls[1].bytes[4] = 8
          /\ \A i \in 2..Len(calls) : calls[i].c = "read"
          /\ result # "error" =>
               /\ AckRead(calls[Len(calls)])
               /\ Cardinality({i \in DOMAIN calls : AckRead(calls[i])}) = 1

C7_Witness ==
  /\ model = "A" /\ op = "write" /\ pc = "idle" /\ result = "ok" /\ ~dryRun
  /\ Len(frames) = 3 /\ ioDone

\* the address of the block frame written last
LastAddress == frames[Len(frames)].from + (frames[Len(frames)].count - 1) * frames[Len(frames)].len

\* C8: in a KT-8900 writeCodeplug without dryRun the frame of the block at
\* address 0 is ['X', 0, 0, 16] and the payload, without the 0x06 before it;
\* the frame of every other block starts with 0x06; this holds in every call.
C8_FirstFrameOmitsAck ==
  (model = "B" /\ op = "write" /\ calls # <<>> /\ calls[1].c = "write" /\ calls[1].n >= 20)
    => /\ frames # <<>> /\ frames[Len(frames)].cmd = CMD_X
       /\ Cardinality({k \in DOMAIN frames : frames[k].cmd = CMD_X}) = 1
       /\ frames[Len(frames)].from = 0
       /\ IF LastAddress = 0
          THEN /\ calls[1].n = 20
               /\ SubSeq(calls[1].bytes, 1, 4) = <<CMD_X, 0, 0, 16>>
          ELSE /\ calls[1].n = 21
               /\ SubSeq(calls[1].bytes, 1, 5)
                    = <<ACK, CMD_X, LastAddress \div 256, LastAddress % 256, 16>>

\* the first block of a second writeCodeplug call, after one that wrote all blocks
C8_Witness ==
  /\ model = "B" /\ op = "write" /\ pc = "w_loop" /\ opsDone = 3
  /\ calls # <<>> /\ calls[1].c = "write" /\ calls[1].n = 20
  /\ devMem = << [upto |-> 12544, pat |-> 1], [upto |-> 16384, pat |-> 0] >>

\* the identification of this operation has returned
Identified ==
  \/ pc \in {"r_loop", "w_loop"} /\ magics > 0
  \/ pc = "idle" /\ op = "write" /\ result = "ok" /\ dryRun

\* C9: the KT-8900 identification makes at most 3 attempts: after two timeouts
\* and a valid third attempt the operation goes on, 3 magic sequences sent;
\* after three failed attempts it fails with the third one's error, 3 magic
\* sequences sent and 2 delays made.
C9_ThreeAttempts ==
  model = "B" =>
    /\ magics <= 3 /\ attempt <= 3 /\ Len(tried) <= 3 /\ delays <= 2
    /\ (Identified /\ Len(tried) = 2) => (magics = 3 /\ delays = 2)
    /\ Len(tried) = 3 =>
         /\ pc = "idle" /\ result = "error" /\ err = tried[3]
         /\ magics = 3 /\ delays = 2

C9_Witness ==
  /\ model = "B" /\ pc = "r_loop" /\ tried = <<MsgTimeout, MsgTimeout>>
  /\ magics = 3 /\ delays = 2 /\ addr = 0

C9_WitnessFail ==
  /\ model = "B" /\ pc = "idle" /\ result = "error" /\ Len(tried) = 3
  /\ magics = 3 /\ delays = 2

\* the errors of an attempt that are transient: timeout, bad ACK,
\* identification mismatch, upload ACK missing
Transient == {MsgTimeout, MsgBadAckRadio, MsgBadAckExtra, MsgIdentFailed, MsgUploadAck}

\* C10: an attempt that fails with an error that is not transient ends the
\* operation with that error, without a delay or another magic sequence; an
\* attempt that fails with a transient one is followed by another attempt when
\* fewer than 3 were made.
C10_RetryTransientOnly ==
  model = "B" =>
    \A k \in DOMAIN tried :
      /\ tried[k] \notin Transient =>
           /\ k = Len(tried) /\ pc = "idle" /\ result = "error" /\ err = tried[k]
           /\ magics = k /\ delays = k - 1
      /\ (tried[k] \in Transient /\ k < 3 /\ k = Len(tried)) =>
           \/ pc = "ident" /\ attempt = k + 1 /\ delays = k /\ magics = k
           \/ Identified /\ magics = k + 1 /\ delays = k

C10_Witness ==
  /\ model = "B" /\ pc = "idle" /\ result = "error" /\ tried = <<MsgWriteFailed>>
  /\ err = MsgWriteFailed /\ magics = 1 /\ delays = 0

\* no block frame is in the log of the operation's frames twice, the extra-ID
\* frames of the identification attempts left aside
NoFrameTwice ==
  \A i, j \in DOMAIN frames :
    (/\ i < j
     /\ frames[i].cmd = frames[j].cmd
     /\ frames[i].len = frames[j].len
     /\ ~(frames[i].cmd = CMD_S /\ frames[i].from = 15856 /\ frames[i].len = 16))
      => frames[i].from + frames[i].count * frames[i].len <= frames[j].from

\* the transport calls of a step write no frame twice
NoWriteTwice(cs) ==
  \A i, j \in DOMAIN cs :
    (i < j /\ cs[i].c = "write" /\ cs[j].c = "write") => cs[i].bytes # cs[j].bytes

\* C11: outside the KT-8900 identification, a step that throws ends the
\* operation with that error (in the BF-888 connect that catches it, after the
\* close() of the catch block, which writes nothing); no step writes a frame
\* twice, and no block frame is written twice in one operation.
C11_AttemptOnce ==
  [][ /\ (err' # <<>> /\ pc # "ident") =>
           /\ \/ pc' = "idle" /\ result' = "error"
              \/ pc' = "c_catch" /\ pc \in {"c_mode", "c_program", "c_ident", "c_ack"}
           /\ pc = "c_catch" =>
                /\ pc' = "idle" /\ err' = err
                /\ \A i \in DOMAIN calls' : calls'[i].c = "close"
      /\ NoWriteTwice(calls')
      /\ NoFrameTwice' ]_vars

C11_Witness ==
  /\ model = "A" /\ op = "read" /\ pc = "idle" /\ result = "error"
  /\ err = MsgBlockHeader
  /\ frames = << [cmd |-> CMD_R, from |-> 0, len |-> 8, count |-> 2] >>

\* the frames of the log that are not extra-ID frames of an identification
BlockFrames(log) ==
  SelectSeq(log, LAMBDA run : ~(run.cmd = CMD_S /\ run.from = 15856 /\ run.len = 16))

\* the bytes a transport read received (<<>> when it timed out)
Received(call) == IF call.c = "read" /\ call.ok THEN call.bytes ELSE <<>>

\* cs are the transport calls of an identification that succeeded: the magic
\* sequence written, 50 bytes read that start with 0x06 and hold a known file
\* ID, the extra-ID frame written, 21 bytes read that start with 0x06 or 0x05;
\* for upload, 0x06 written and then 0x06 the last byte received
IdentificationIn(cs, forUpload) ==
  /\ Len(cs) >= 4
  /\ cs[1].c = "write" /\ cs[1].ok /\ cs[1].bytes = <<85, 32, 21, 9, 22, 69, 77, 2>>
  /\ cs[2].c = "read" /\ cs[2].ok /\ cs[2].n = 50 /\ cs[2].bytes[1] = 6
  /\ \E id \in FILE_IDS : containsSubarray(cs[2].bytes, id)
  /\ cs[3].c = "write" /\ cs[3].ok /\ cs[3].bytes = <<6, 83, 61, 240, 16>>
  /\ cs[4].c = "read" /\ cs[4].ok /\ cs[4].n = 21 /\ cs[4].bytes[1] \in {5, 6}
  /\ IF forUpload
     THEN /\ Len(cs) >= 6
          /\ cs[5].c = "write" /\ cs[5].ok /\ cs[5].bytes = <<6>>
          /\ \A k \in 6..Len(cs) : cs[k].c = "read"
          /\ \E k \in 6..Len(cs) :
               /\ Received(cs[k]) = <<6>>
               /\ \A j \in (k + 1)..Len(cs) : Received(cs[j]) = <<>>
     ELSE Len(cs) = 4

\* C12: a KT-8900 readCodeplug or writeCodeplug writes block frames only in
\* its block loop, which it enters only from an identification that succeeded
\* in the same call (with the upload step exactly for writeCodeplug); a new
\* call never starts in the loop, and a call whose identification failed has
\* written no block frame.
C12_IdentifyBeforeBlocks ==
  [][ model = "B" =>
        /\ BlockFrames(frames') \notin {<<>>, BlockFrames(frames)} =>
             pc \in {"r_loop", "w_loop"} /\ op' = op /\ opsDone' = opsDone
        /\ (pc' \in {"r_loop", "w_loop"} /\ pc \notin {"r_loop", "w_loop"}) =>
             /\ pc = "ident" /\ op' = op /\ opsDone' = opsDone
             /\ op \in {"read", "write"}
             /\ pc' = (IF op = "read" THEN "r_loop" ELSE "w_loop")
             /\ IdentificationIn(calls', op = "write")
             /\ BlockFrames(frames') = <<>>
        /\ opsDone' # opsDone => pc' \in {"idle", "ident"} /\ BlockFrames(frames') = <<>>
        /\ (pc = "ident" /\ pc' = "idle" /\ result' = "error") =>
             BlockFrames(frames') = <<>> ]_vars

C12_Witness ==
  /\ model = "B" /\ op = "write" /\ opsDone = 3 /\ pc = "w_loop" /\ addr = 32
  /\ BlockFrames(frames) = << [cmd |-> CMD_X, from |-> 0, len |-> 16, count |-> 2] >>

\* C13: when disconnect() has returned or thrown, on either driver and from
\* any state before it, the driver is not connected and the transport is
\* closed: it is not open, or this disconnect() called close() on it.
C13_DisconnectAlwaysReleases ==
  (op = "disconnect" /\ pc = "idle")
    => /\ ~connected
       /\ ~isOpen \/ \E i \in DOMAIN calls : Closed(calls[i])

\* the step is the call of operation o
Calls(o) == opsDone' # opsDone /\ op' = o

\* C14: a BF-888 disconnect on a connected driver writes 'E' first and calls
\* close() only after that write succeeded; when both succeed the driver is
\* not connected.  On a driver that is not connected it makes no transport
\* call and leaves the transport as it is.
C14_ExitThenClose ==
  [][ (model = "A" /\ Calls("disconnect")) =>
        IF connected
        THEN /\ Len(calls') >= 1
             /\ calls'[1].c = "write" /\ calls'[1].bytes = <<69>>
             /\ \A i \in DOMAIN calls' : Closed(calls'[i]) => (i = 2 /\ calls'[1].ok)
             /\ calls'[1].ok => (Len(calls') = 2 /\ Closed(calls'[2]))
             /\ (calls'[1].ok /\ calls'[Len(calls')].ok) =>
                  (result' = "ok" /\ ~connected' /\ ~isOpen')
        ELSE /\ calls' = <<>> /\ ~ioDone'
             /\ isOpen' = isOpen /\ rx' = rx /\ devMem' = devMem
             /\ ~connected' /\ result' = "ok" ]_vars

C14_Witness ==
  /\ model = "A" /\ op = "disconnect" /\ pc = "idle" /\ result = "ok"
  /\ Len(calls) = 2 /\ calls[1].bytes = <<69>> /\ Closed(calls[2])
  /\ ~connected /\ ~isOpen

\* C15: the KT-8900 connect makes one transport call, open(): it writes
\* nothing and reads nothing.  When open() succeeds the driver is connected;
\* when it fails connect throws and the driver is as connected as it was.
C15_ConnectOnlyOpens ==
  [][ (model = "B" /\ Calls("connect")) =>
        /\ Len(calls') = 1 /\ calls'[1].c = "open"
        /\ frames' = <<>> /\ magics' = 0 /\ rx' = rx /\ devMem' = devMem
        /\ pc' = "idle"
        /\ IF calls'[1].ok THEN result' = "ok" /\ connected'
           ELSE result' = "error" /\ connected' = connected ]_vars

C15_Witness ==
  /\ model = "B" /\ op = "connect" /\ pc = "idle" /\ result = "error"
  /\ ~connected /\ calls = << OpenCall(FALSE) >>

\* C16: the KT-8900 disconnect on a connected driver makes one transport
\* call, close(), and writes no byte; when close() succeeds the driver is
\* not connected.  On a driver that is not connected it makes no call.
C16_DisconnectOnlyCloses ==
  [][ (model = "B" /\ Calls("disconnect")) =>
        /\ \A i \in DOMAIN calls' : Closed(calls'[i])
        /\ Len(calls') = (IF connected THEN 1 ELSE 0)
        /\ frames' = <<>> /\ rx' = rx /\ devMem' = devMem
        /\ pc' = "idle"
        /\ (connected /\ calls'[1].ok) => (result' = "ok" /\ ~connected' /\ ~isOpen')
        /\ ~connected => (result' = "ok" /\ ~connected') ]_vars

C16_Witness ==
  /\ model = "B" /\ op = "disconnect" /\ pc = "idle" /\ result = "ok"
  /\ calls = << CloseCall(TRUE) >> /\ ~connected /\ ~isOpen

\* the bytes received by the reads rs, in order (at most two reads)
ReceivedBy(rs) ==
  IF rs = <<>> THEN <<>>
  ELSE IF Len(rs) = 1 THEN Received(rs[1])
  ELSE Received(rs[1]) \o Received(rs[2])

\* C17: in a KT-8900 identification for upload, after the extra-ID exchange
\* the driver writes the byte 0x06 and then reads one byte at a time, twice at
\* most, a timeout ending the wait without being thrown; the attempt succeeds
\* exactly when a byte was received and the last one received is 0x06, and
\* fails with the upload error otherwise.
C17_UploadAck ==
  [][ (/\ model = "B" /\ pc = "ident" /\ upload
       /\ Len(calls') >= 5 /\ calls'[5].c = "write" /\ calls'[5].ok) =>
        LET reads == SubSeq(calls', 6, Len(calls'))
            got == ReceivedBy(reads)
        IN  /\ calls'[4].c = "read" /\ calls'[4].ok /\ calls'[4].n = 21
            /\ calls'[5].bytes = <<6>>
            /\ Len(reads) \in {1, 2}
            /\ \A k \in DOMAIN reads : reads[k].c = "read" /\ reads[k].n = 1
            /\ reads[1].ok = (Len(reads) = 2)
            /\ IF got # <<>> /\ got[Len(got)] = 6
               THEN tried' = tried /\ pc' # "ident" /\ result' # "error"
               ELSE tried' = Append(tried, MsgUploadAck) ]_vars

C17_Witness ==
  /\ model = "B" /\ op = "write" /\ pc = "w_loop" /\ addr = 0 /\ Len(calls) = 7
  /\ calls[5].bytes = <<6>>
  /\ calls[6].bytes = <<5>> /\ calls[7].bytes = <<6>>
  /\ tried = <<>>

\* the header of a block response is not the one the protocol prescribes for
\* the block asked for at address a with length n
BadBlockHeader(bytes, a, n) ==
  \/ bytes[1] # 6
  \/ bytes[2] # 88
  \/ bytes[3] * 256 + bytes[4] # a
  \/ bytes[5] # n

\* C18: in a KT-8900 readCodeplug, a block response whose first byte is not
\* 0x06, whose command is not 'X', or whose echoed address or length is not the
\* one asked for makes the read fail in that step: nothing is returned, and
\* no block is asked for after it.  An image is returned only by a read that
\* succeeded.
C18_BadHeaderFailsRead ==
  [][ /\ (/\ model = "B" /\ pc = "r_loop"
          /\ Len(calls') >= 2 /\ calls'[2].c = "read" /\ calls'[2].ok
          /\ BadBlockHeader(calls'[2].bytes, addr, 64)) =>
            /\ pc' = "idle" /\ result' = "error"
            /\ err' \in {MsgBadAckRead, MsgInvalidHeader}
            /\ returned' = <<>>
            /\ Len(calls') = 2
            /\ addr' = addr
      /\ (model = "B" /\ returned' # <<>>) => (op' = "read" /\ result' = "ok") ]_vars

C18_Witness ==
  /\ model = "B" /\ op = "read" /\ pc = "idle" /\ result = "error"
  /\ err = MsgInvalidHeader /\ returned = <<>>
  /\ BlockFrames(frames) = << [cmd |-> CMD_S, from |-> 0, len |-> 64, count |-> 2] >>
  /\ calls[2].bytes[5] = 65

\* the addresses of the 8-byte blocks of [0x0000, 0x0110), [0x02B0, 0x02C0)
\* and [0x0380, 0x03E0), in ascending order
WritableBlocksA ==
  [i \in 1..48 |-> IF i <= 34 THEN 8 * (i - 1)
                   ELSE IF i <= 36 THEN 688 + 8 * (i - 35)
                   ELSE 896 + 8 * (i - 37)]

\* C19: with dryRun, the BF-888 writeCodeplug makes no transport call and
\* leaves the radio's memory and the bytes not yet read as they are.  It
\* throws on a driver that is not connected, on an image shorter than 0x03E0
\* bytes and on a validator that rejects the image, logging nothing;
\* otherwise it logs the 48 blocks of the three ranges, one entry each, in
\* order, and returns.
C19_DryRunA ==
  [][ (model = "A" /\ dryRun /\ Calls("write")) =>
        /\ calls' = <<>> /\ ~ioDone' /\ frames' = <<>>
        /\ devMem' = devMem /\ rx' = rx /\ isOpen' = isOpen
        /\ pc' = "idle"
        /\ IF ~connected
           THEN result' = "error" /\ err' = MsgNotConnected /\ logged' = <<>>
           ELSE IF data'.len < 992
           THEN result' = "error" /\ err' = MsgTooSmall /\ logged' = <<>>
           ELSE IF \E k \in DOMAIN checksumValidators : ~checksumValidators[k]
           THEN result' = "error" /\ err' = MsgChecksum /\ logged' = <<>>
           ELSE result' = "ok" /\ logged' = WritableBlocksA ]_vars

C19_Witness ==
  /\ model = "A" /\ dryRun /\ op = "write" /\ pc = "idle" /\ result = "ok"
  /\ connected /\ Len(logged) = 48 /\ logged[35] = 688 /\ calls = <<>>

\* a transport write of an 'X' frame, with or without the 0x06 before it
WritesX(call) ==
  /\ call.c = "write"
  /\ \/ call.n >= 4 /\ call.bytes[1] = 88
     \/ call.n >= 5 /\ call.bytes[1] = 6 /\ call.bytes[2] = 88

\* C20: with dryRun, no step of a KT-8900 writeCodeplug writes an 'X' frame
\* or changes the radio's memory, and the call never enters the loop that
\* transmits; when it returns it has logged the 784 blocks of [0, 0x3100),
\* one entry each, in order.
C20_DryRunB ==
  [][ (model = "B" /\ dryRun /\ op' = "write") =>
        /\ \A i \in DOMAIN calls' : ~WritesX(calls'[i])
        /\ BlockFrames(frames') = <<>>
        /\ devMem' = devMem
        /\ pc' \in {"idle", "ident"}
        /\ (pc' = "idle" /\ result' = "ok") =>
             logged' = [i \in 1..784 |-> 16 * (i - 1)]
        /\ (pc' = "idle" /\ result' = "error") => logged' = <<>> ]_vars

C20_Witness ==
  /\ model = "B" /\ dryRun /\ op = "write" /\ pc = "idle" /\ result = "ok"
  /\ Len(logged) = 784 /\ logged[784] = 12528 /\ magics = 1

\* C30: readCodeplug and writeCodeplug called on a driver that is not connected
\* (never connected, connect failed, or disconnected) fail at once with the
\* not-connected error, make no transport call and leave the driver, the
\* transport and the radio as they were.
C30_NotConnectedFailsAtOnce ==
  [][ ((Calls("read") \/ Calls("write")) /\ ~connected) =>
        /\ pc' = "idle" /\ result' = "error" /\ err' = MsgNotConnected
        /\ calls' = <<>> /\ ~ioDone' /\ frames' = <<>>
        /\ connected' = connected /\ isOpen' = isOpen
        /\ rx' = rx /\ devMem' = devMem ]_vars

\* a read refused after a connect and a disconnect, a write refused after a
\* connect that failed
C30_Witness ==
  /\ result = "error" /\ err = MsgNotConnected /\ calls = <<>>
  /\ \/ op = "read" /\ opsDone = 3 /\ ~isOpen
     \/ op = "write" /\ opsDone = 2 /\ devOps = 1

\* a readExactly call that ended in a timeout
TimedOut(call) == call.c = "read" /\ ~call.ok

\* C28: when a transport read times out during readCodeplug or writeCodeplug,
\* the driver does not close the transport and stays connected; a timeout in
\* a block read or a block write ends the operation with the timeout error;
\* and the caller's next disconnect still writes what it writes and closes.
C28_TimeoutLeavesTransportOpen ==
  [][ /\ (op' \in {"read", "write"} /\ \E i \in DOMAIN calls' : TimedOut(calls'[i])) =>
           /\ \A i \in DOMAIN calls' : ~Closed(calls'[i])
           /\ connected /\ connected' /\ isOpen' = isOpen
           /\ pc \in {"r_loop", "w_loop"} =>
                (pc' = "idle" /\ result' = "error" /\ isTimeoutError(err'))
      /\ (Calls("disconnect") /\ op \in {"read", "write"} /\ result = "error"
            /\ isTimeoutError(err) /\ \A i \in DOMAIN calls' : calls'[i].ok) =>
           /\ calls' # <<>> /\ Closed(calls'[Len(calls')])
           /\ result' = "ok" /\ ~connected' /\ ~isOpen' ]_vars

\* a block read or a block write ended by a timeout, the transport still open
\* and the driver still connected
C28_Witness ==
  /\ op \in {"read", "write"} /\ pc = "idle" /\ result = "error"
  /\ isTimeoutError(err) /\ frames # <<>>
  /\ calls # <<>> /\ TimedOut(calls[Len(calls)])
  /\ connected /\ isOpen

\* C22: channel synthesis is idempotent: on a base image of at least 0x03E0
\* bytes (and on no shorter one) synthesizeFullCodeplug returns an image, a
\* second application to the same base returns the same image, and an
\* application to that image returns it unchanged.
C22_SynthesisIdempotent ==
  (fn = "synthesizeFullCodeplug") =>
    /\ fnOut.threw <=> Len(fnArgs[1]) < 992
    /\ synthesizeFullCodeplug(fnArgs[1]) = fnOut
    /\ ~fnOut.threw =>
         /\ Len(fnOut.value) = Len(fnArgs[1])
         /\ synthesizeFullCodeplug(fnOut.value) = fnOut

\* synthesizeFullCodeplug applied to the image it returned for a base whose
\* channel 0 was erased (flags and trailer zero), and returning it again
C22_Witness ==
  /\ fn = "synthesizeFullCodeplug" /\ ~fnOut.threw
  /\ fnArgs = <<fnOut.value>>
  /\ fnOut.value[2] # 0
  /\ SubSeq(fnOut.value, 29, 32) = <<0, 0, 0, 0>>

\* parseInt(digits, radix)
RECURSIVE parseInt(_, _)
parseInt(digits, radix) ==
  IF digits = <<>> THEN 0
  ELSE parseInt(SubSeq(digits, 1, Len(digits) - 1), radix) * radix + digits[Len(digits)]

\* the number whose decimal digits the nibbles of the bytes are, the least
\* significant pair first
decodeLbcd(bytes) ==
  parseInt([k \in 1..(2 * Len(bytes)) |->
              IF k % 2 = 1 THEN bytes[Len(bytes) - (k - 1) \div 2] \div 16
              ELSE bytes[Len(bytes) - (k - 1) \div 2] % 16], 10)

\* C23: 462,000,000 Hz encodes to 0x00 0x00 0x20 0x46, and the encoding of
\* each channel's frequency 462,000,000 + i * 12,500 Hz is 4 bytes of decimal
\* nibbles that decode, least significant pair first, to that frequency / 10.
C23_FrequencyEncoding ==
  (fn = "encodeLbcdFrequency") =>
    /\ fnArgs[1] = 462000000 => fnOut.value = <<0, 0, 32, 70>>
    /\ (\E i \in 0..15 : fnArgs[1] = 462000000 + i * 12500) =>
         /\ Len(fnOut.value) = 4
         /\ \A k \in 1..4 : fnOut.value[k] \div 16 <= 9 /\ fnOut.value[k] % 16 <= 9
         /\ decodeLbcd(fnOut.value) * 10 = fnArgs[1]

\* the frequency of channel 15 encoded: 46,218,750 as 0x50 0x87 0x21 0x46
C23_Witness ==
  /\ fn = "encodeLbcdFrequency"
  /\ fnArgs = <<462187500>>
  /\ fnOut.value = <<80, 135, 33, 70>>

\* the channels one of whose 16 bytes differs between two images of one length
DifferingChannels(expected, actual) ==
  { c \in 0..15 : \E o \in (16 + 16 * c)..(31 + 16 * c) : expected[o + 1] # actual[o + 1] }

C25_VerifiesWrittenRegion ==
  (fn = "verifyWrittenRegion") =>
    LET bound == Min(12544, Min(MemLen(fnArgs[1]), MemLen(fnArgs[2])))
        differs(i) == ByteAt(fnArgs[1], i) # ByteAt(fnArgs[2], i)
    IN  /\ fnOut.threw <=> \E i \in 0..(bound - 1) : differs(i)
        /\ fnOut.threw =>
             /\ Len(fnOut.n) = 4
             /\ parseInt(fnOut.n, 16) < bound
             /\ differs(parseInt(fnOut.n, 16))
             /\ \A i \in 0..(parseInt(fnOut.n, 16) - 1) : ~differs(i)

\* a verification that passed although the images differ at 0x3100, beyond
\* the bound, and one that failed at the last offset below it
C25_Witness ==
  /\ fn = "verifyWrittenRegion"
  /\ MemLen(fnArgs[1]) > 12544 /\ MemLen(fnArgs[2]) > 12544
  /\ ByteAt(fnArgs[1], 12544) # ByteAt(fnArgs[2], 12544)
  /\ ~fnOut.threw

C25_WitnessFail ==
  /\ fn = "verifyWrittenRegion" /\ fnOut.threw
  /\ fnOut.n = <<3, 0, 15, 15>>

\* C26: the bytes the successful readExactly calls of one transport returned
\* are, in order, the first bytes the radio sent: none is dropped, none is
\* delivered twice, also when calls in between timed out.
C26_NoByteLost ==
  /\ Len(delivered) <= sent
  /\ \A i \in 1..Len(delivered) : delivered[i] = i

\* ... which the second revision of NodeSerialBackend does keep
Node2_KeepsStream ==
  (backend.kind = "Node2") =>
    /\ Len(delivered) <= sent
    /\ \A i \in 1..Len(delivered) : delivered[i] = i

\* the step is a call of close() on the backend
ClosesTransport == tcall'.k # tcall.k /\ tcall'.name = "close"

\* C27: close() of a transport completes without error from any state (never
\* opened, open failed, closed before, a read timed out) and leaves the port
\* closed and the backend without reader, writer, requested read or waiter.
C27_CloseSafe ==
  [][ ClosesTransport =>
        /\ tcall'.result = "ok"
        /\ ~port'.opened
        /\ backend'.kind = "Web" =>
             (~backend'.reader /\ ~backend'.writer /\ port'.reads = 0)
        /\ backend'.kind \in {"Node1", "Node2"} => ~backend'.isOpen
        /\ backend'.kind = "Node2" => backend'.waiters = 0 ]_vars

\* the fourth call is a close() that succeeded, after a read that timed out
C27_Witness ==
  /\ tcall.name = "close" /\ tcall.result = "ok"
  /\ tcall.k = 4 /\ tcall.timeouts > 0

\* C29: createRadio returns a BF888Driver for the tag 'bf-888' and a
\* KT8900Driver for the tag 'kt-8900', each bound to the backend it was given
\* and not connected; for every other tag it throws the unsupported-model
\* error and returns no driver; it makes no call on the backend.
C29_FactoryByTag ==
  (fn = "createRadio") =>
    /\ fnArgs[2] = "bf-888" =>
         (~fnOut.threw /\ fnOut.value.class = "BF888Driver"
            /\ fnOut.value.backend = fnArgs[3] /\ ~fnOut.value.connected)
    /\ fnArgs[2] = "kt-8900" =>
         (~fnOut.threw /\ fnOut.value.class = "KT8900Driver"
            /\ fnOut.value.backend = fnArgs[3])
    /\ fnArgs[2] \notin {"bf-888", "kt-8900"} =>
         (fnOut.threw /\ fnOut.message = "Unsupported radio model: N"
            /\ fnOut.n = fnArgs[2])
    /\ tcall.k = 0 /\ calls = <<>> /\ ~isOpen /\ ~port.opened

\* ... which the factory of core (bf888.ts:436-448) does
Core_FactoryByTag == (fn = "createRadio" /\ fnArgs[1] = "index") \/ C29_FactoryByTag

\* the region a round trip is verified over: the 16 channel records of
\* Model-A, the first 0x3100 bytes of Model-B
VerifiedRegion ==
  IF model = "A"
  THEN CHANNEL_BASE .. (CHANNEL_BASE + CHANNEL_COUNT * CHANNEL_SIZE - 1)
  ELSE 0 .. (Scenario_UPLOAD_MEM_SIZE - 1)

\* the scenario ran to its last download with the radio and the transport
\* following the protocol in every operation
RoundTripDone ==
  /\ plan # Free /\ readBack # <<>> /\ devOps = 0
  /\ model = "A" => scenario.name = "roundTrip"

\* C21: for both models, when the radio stores the blocks it is sent and
\* otherwise follows the protocol, a download, an upload of the downloaded
\* bytes and a second download give an image that equals the first one at
\* every offset of the verified region ([0x0010, 0x0110) for Model-A, the
\* first 0x3100 bytes for Model-B), and Model-B's verifyWrittenRegion of the
\* two images does not throw.
C21_RoundTrip ==
  RoundTripDone =>
    /\ original # <<>>
    /\ \A i \in VerifiedRegion :
         i < MemLen(original) /\ i < MemLen(readBack)
           /\ ByteAt(readBack, i) = ByteAt(original, i)
    /\ fn = "verifyWrittenRegion" => ~fnOut.threw

\* a round trip that wrote to the radio and ended
C21_Witness ==
  /\ RoundTripDone /\ plan = <<>> /\ ~dryRun
  /\ model = "B" => fn = "verifyWrittenRegion"

\* the calls cs as steps <<call, bytes>>, the bytes of writes that follow one
\* another taken together
RECURSIVE Steps(_)
Steps(cs) ==
  IF cs = <<>> THEN <<>>
  ELSE LET rest == Steps(Tail(cs)) IN
       IF cs[1].c = "write" /\ rest # <<>> /\ rest[1][1] = "write"
       THEN << <<"write", cs[1].bytes \o rest[1][2]>> >> \o Tail(rest)
       ELSE << <<cs[1].c, cs[1].bytes>> >> \o rest

\* the handshake of the BF-888 with the identification bytes ident: the
\* transport opened, 0x02 and 'PROGRAM' written, ACK received, the
\* identification requested, ident received, ACK written, ACK received
FullHandshake(ident) ==
  << <<"open", <<>>>>, <<"write", <<2>> \o CmdProgram>>, <<"read", <<ACK>>>>,
     <<"write", <<2>>>>, <<"read", ident>>, <<"write", <<ACK>>>>, <<"read", <<ACK>>>> >>

\* the identification bytes of the handshake that set connected
IdentReceived == Steps(handshake.done)[5][2]

\* C31: in every state in which the Model-A driver is connected, the whole
\* handshake has happened, in this order: the transport opened, 0x02 and
\* 'PROGRAM' written, ACK received, the identification requested, 8
\* identification bytes received that start with 'P3107', ACK written, the
\* confirmation ACK received.
C31_HandshakeBeforeConnected ==
  (model = "A" /\ connected) =>
    /\ Len(Steps(handshake.done)) = 7
    /\ Steps(handshake.done) = FullHandshake(IdentReceived)
    /\ Len(IdentReceived) = 8
    /\ startsWith(IdentReceived, IDENT_PREFIX)

\* the same with the identification taken as the driver takes it, as the
\* string decodeAscii makes of the 8 bytes
HandshakeDecoded ==
  (model = "A" /\ connected) =>
    /\ Len(Steps(handshake.done)) = 7
    /\ Steps(handshake.done) = FullHandshake(IdentReceived)
    /\ Len(IdentReceived) = 8
    /\ startsWith(decodeAscii(IdentReceived), IDENT_PREFIX)

\* a driver connected after an identification whose first byte is not 'P'
ConnectedByOtherIdent ==
  model = "A" /\ connected /\ IdentReceived[1] # IDENT_PREFIX[1]

\* C32: each block read of the BF-888 writes the 'R' frame of the block and
\* reads 4 + 8 bytes.  When the 4 bytes of the header are 'W', the address
\* and 8, it writes ACK and waits for the confirmation ACK, and the read
\* goes on only with the payload stored at that address.  When the header
\* differs in the command, the address or the length, the read fails: no
\* ACK is written for the block, nothing is stored, no block is asked for
\* after it.  Nothing is stored by a block read that failed.
C32_ReadBlockA ==
  [][ (model = "A" /\ pc = "r_loop") =>
        LET cs == calls'
            expected == <<CMD_W, addr \div 256, addr % 256, 8>>
        IN  /\ Len(cs) >= 1
            /\ cs[1].c = "write"
            /\ cs[1].bytes = <<CMD_R, addr \div 256, addr % 256, 8>>
            /\ cs[1].ok => (Len(cs) >= 2 /\ cs[2].c = "read" /\ cs[2].n = 12)
            /\ (Len(cs) >= 2 /\ cs[2].ok) =>
                 IF SubSeq(cs[2].bytes, 1, 4) = expected
                 THEN /\ Len(cs) >= 3
                      /\ cs[3].c = "write" /\ cs[3].bytes = <<ACK>>
                      /\ cs[3].ok => Len(cs) >= 4
                      /\ \A i \in 4..Len(cs) : cs[i].c = "read" /\ cs[i].n = 1
                      /\ result' # "error" =>
                           /\ AckRead(cs[Len(cs)])
                           /\ MemBytes(buffer', addr, 8) = SubSeq(cs[2].bytes, 5, 12)
                 ELSE /\ Len(cs) = 2
                      /\ pc' = "idle" /\ result' = "error" /\ err' = MsgBlockHeader
                      /\ addr' = addr
            /\ result' = "error" => (buffer' = buffer /\ returned' = <<>>)
            /\ result' # "error" =>
                 (Len(cs) >= 4 /\ cs[2].ok /\ SubSeq(cs[2].bytes, 1, 4) = expected) ]_vars

\* a block read that failed on a header with another length
C32_Witness ==
  /\ model = "A" /\ op = "read" /\ pc = "idle" /\ result = "error"
  /\ err = MsgBlockHeader
  /\ Len(calls) = 2 /\ calls[2].ok /\ calls[2].bytes[1] = CMD_W /\ calls[2].bytes[4] = 9

\* the addresses of the frames of the log, in the order they were written
RECURSIVE FrameAddrs(_)
FrameAddrs(log) ==
  IF log = <<>> THEN <<>>
  ELSE [i \in 1..log[1].count |-> log[1].from + (i - 1) * log[1].len]
         \o FrameAddrs(Tail(log))

\* the addresses of the blocks this writeCodeplug has transmitted so far
Transmitted ==
  FrameAddrs(SelectSeq(frames, LAMBDA run :
    run.cmd = (IF model = "A" THEN CMD_W ELSE CMD_X)))

\* the write order: the blocks of the three ranges of the BF-888, the 16-byte
\* blocks of the first 0x3100 bytes of the KT-8900
WriteOrder ==
  IF model = "A" THEN WritableBlocksA ELSE [i \in 1..784 |-> 16 * (i - 1)]

\* the radio holds the block of the image at address a
Written(a) ==
  \A i \in a..(a + (IF model = "A" THEN 8 ELSE 16) - 1) :
    ByteAt(devMem, i) = PatternByte(data.pat, i)

\* C33: the blocks a writeCodeplug call (either driver) has transmitted are
\* the first blocks of the write order, in order: every call starts with the
\* first block, whatever the call before did.  When a block write fails, the
\* call ends with that block as the last one transmitted, and the radio
\* still holds every block it acknowledged before: every block transmitted
\* before, when the acknowledgements read in this call are the radio's (no
\* operation before this call left bytes of a deviating radio unread).
C33_NoResume ==
  (op = "write" /\ Transmitted # <<>>) =>
    /\ Len(Transmitted) <= Len(WriteOrder)
    /\ Transmitted = SubSeq(WriteOrder, 1, Len(Transmitted))
    /\ (pc = "idle" /\ result = "error" /\ devOps = (IF dev THEN 1 ELSE 0)) =>
         \A k \in 1..(Len(Transmitted) - 1) : Written(WriteOrder[k])

\* a writeCodeplug call has transmitted its first block after a call that
\* failed behind its second block
C33_Witness ==
  /\ op = "write" /\ opsDone = 3
  /\ Transmitted = <<0>>
  /\ Written(WriteOrder[2])
  /\ ~Written(WriteOrder[Len(WriteOrder)])

\* a writeCodeplug call that failed at a block behind the first two
WriteFailedMidway ==
  /\ op = "write" /\ pc = "idle" /\ result = "error"
  /\ Len(Transmitted) > 2

\* a session of the scenario has failed: its function threw and the session
\* runner has called disconnect, or the operation that ended last threw
SessionFailed == scenario.failed \/ (pc = "idle" /\ result = "error")

\* C34: the synthesize-and-verify scenario of either model starts its
\* sessions in the order read, write, read, and no other; it reports that
\* the verification passed only after these three.  With the session runner
\* of the tests, a session is started only after the disconnect of the
\* session before was called, and when the function of a session throws
\* the next call on the driver is disconnect.  After a session has failed,
\* no session is started and the verification is not reported as passed.
C34_ThreeSessions ==
  [][ scenario.name = "synthWriteVerify" =>
        /\ \E n \in 0..3 : scenario'.sessions = SubSeq(<<"read", "write", "read">>, 1, n)
        /\ scenario'.passed =>
             (scenario'.sessions = <<"read", "write", "read">> /\ ~scenario'.failed)
        /\ Calls("connect") =>
             /\ ~SessionFailed
             /\ scenario.sessions # <<>> => (op = "disconnect" /\ pc = "idle")
        /\ (pc = "idle" /\ result = "error" /\ op \in {"read", "write"}
              /\ opsDone' # opsDone) => op' = "disconnect"
        /\ SessionFailed =>
             (~scenario'.passed /\ scenario'.sessions = scenario.sessions) ]_vars

\* the write session failed, disconnect was called, the scenario ended
C34_Witness ==
  /\ scenario.name = "synthWriteVerify" /\ scenario.failed
  /\ scenario.sessions = <<"read", "write">>
  /\ op = "disconnect" /\ pc = "idle" /\ result = "ok"
  /\ ~scenario.passed /\ plan = <<>>

\* one of the known fingerprints stands in bytes, at some offset
HasFingerprint(bytes) ==
  \E id \in FILE_IDS : \E k \in 0..(Len(bytes) - 6) : SubSeq(bytes, k + 1, k + 6) = id

\* C35: an identification attempt of the KT-8900 that received its 50 bytes
\* goes on to the extra-ID frame if and only if the first byte is 0x06 and
\* one of the known 6-character fingerprints stands in the response, at
\* whatever offset.  Otherwise the attempt fails with the error of the
\* check and nothing is written after the response: a response with a
\* fingerprint and another first byte, a response that starts with 0x06
\* and holds no fingerprint.
C35_IdentCheck ==
  [][ (/\ model = "B" /\ pc = "ident"
       /\ Len(calls') >= 2 /\ calls'[2].c = "read" /\ calls'[2].ok) =>
        LET ident == calls'[2].bytes
            passes == Len(calls') >= 3 /\ calls'[3].c = "write" /\ calls'[3].bytes = ExtraFrame
        IN  /\ calls'[1].c = "write" /\ calls'[1].bytes = MAGIC
            /\ Len(ident) = 50
            /\ passes <=> (ident[1] = 6 /\ HasFingerprint(ident))
            /\ ~passes =>
                 /\ Len(calls') = 2
                 /\ tried' = Append(tried, IF ident[1] # 6 THEN MsgBadAckRadio
                                           ELSE MsgIdentFailed) ]_vars

\* an attempt failed on a response that holds a fingerprint behind a first
\* byte other than 0x06
C35_Witness ==
  /\ model = "B" /\ tried # <<>> /\ tried[Len(tried)] = MsgBadAckRadio
  /\ Len(calls) = 2 /\ calls[2].c = "read" /\ calls[2].ok /\ calls[2].n = 50
  /\ calls[2].bytes[1] # 6 /\ HasFingerprint(calls[2].bytes)

\* an attempt failed on a response that starts with 0x06 and holds no fingerprint
IdentWithoutFingerprint ==
  /\ model = "B" /\ tried # <<>> /\ tried[Len(tried)] = MsgIdentFailed
  /\ Len(calls) = 2 /\ calls[2].c = "read" /\ calls[2].ok /\ calls[2].n = 50
  /\ calls[2].bytes[1] = 6 /\ ~HasFingerprint(calls[2].bytes)

\* an attempt went on after a response that holds a fingerprint in its last 6 bytes
IdentFingerprintLast ==
  /\ model = "B" /\ Len(calls) >= 3 /\ calls[2].c = "read" /\ calls[2].n = 50
  /\ calls[2].ok /\ SubSeq(calls[2].bytes, 45, 50) \in FILE_IDS
  /\ calls[3].c = "write" /\ calls[3].bytes = ExtraFrame

\* the bytes the reads of cs from position k on received
RECURSIVE ReceivedFrom(_, _)
ReceivedFrom(cs, k) ==
  IF k > Len(cs) THEN <<>> ELSE Received(cs[k]) \o ReceivedFrom(cs, k + 1)

\* C36: the KT-8900 driver takes 0x06 and 0x05 for an acknowledgement, and
\* no other value, as the first byte of the extra-ID response and as the
\* reply byte to a block written; a block reply it rejects fails the write
\* with no block sent after it.  Everywhere else it takes 0x06 alone: as the
\* first byte of the identification response, as the first byte of a block
\* read, as the last byte of the answer that confirms the upload mode.
C36_TwoAcks ==
  [][ /\ (/\ model = "B" /\ pc = "ident"
           /\ Len(calls') >= 4 /\ calls'[4].c = "read" /\ calls'[4].ok) =>
            /\ calls'[3].c = "write" /\ calls'[3].bytes = ExtraFrame
            /\ calls'[2].bytes[1] = 6
            /\ IF calls'[4].bytes[1] \in {5, 6}
               THEN IF upload
                    THEN /\ Len(calls') >= 5
                         /\ calls'[5].c = "write" /\ calls'[5].bytes = <<6>>
                         /\ (calls'[5].ok /\ ReceivedFrom(calls', 6) # <<>>
                               /\ Last(ReceivedFrom(calls', 6)) # 6)
                              => tried' = Append(tried, MsgUploadAck)
                    ELSE Len(calls') = 4 /\ tried' = tried /\ pc' = "r_loop"
               ELSE Len(calls') = 4 /\ tried' = Append(tried, MsgBadAckExtra)
      /\ (/\ model = "B" /\ pc = "w_loop"
           /\ Len(calls') >= 2 /\ calls'[2].c = "read" /\ calls'[2].ok) =>
            /\ calls'[1].c = "write" /\ calls'[2].n = 1 /\ Len(calls') = 2
            /\ IF calls'[2].bytes[1] \in {5, 6}
               THEN result' # "error" /\ addr' = addr + 16
               ELSE /\ result' = "error" /\ err' = MsgBadAckWrite
                    /\ pc' = "idle" /\ addr' = addr
      /\ (/\ model = "B" /\ pc = "r_loop"
           /\ Len(calls') >= 2 /\ calls'[2].c = "read" /\ calls'[2].ok
           /\ calls'[2].bytes[1] # 6) =>
            (result' = "error" /\ err' = MsgBadAckRead /\ pc' = "idle") ]_vars

\* a block written was answered with 0x05 and the write went on
C36_Witness ==
  /\ model = "B" /\ op = "write" /\ pc = "w_loop" /\ result = "none"
  /\ Len(calls) = 2 /\ calls[2].c = "read" /\ calls[2].bytes = <<5>>
  /\ addr > 0

\* a block read was answered with 0x05 first and failed
BlockReadAckAlt ==
  /\ model = "B" /\ op = "read" /\ pc = "idle" /\ result = "error"
  /\ err = MsgBadAckRead /\ Len(calls) = 2 /\ calls[2].ok /\ calls[2].bytes[1] = 5

\* the extra-ID response started with 0x05 and the identification went on
ExtraAckAlt ==
  /\ model = "B" /\ Len(calls) >= 4 /\ calls[4].c = "read" /\ calls[4].ok
  /\ calls[4].n = 21 /\ calls[4].bytes[1] = 5 /\ pc \in {"r_loop", "w_loop"}

\* C37: with transport calls that return or fail within their timeout, every
\* operation of either driver that was called completes with a result or an
\* error: the wait for an ACK and the identification retry loop end
C37_Terminates == (pc # "idle") ~> (pc = "idle" /\ result \in {"ok", "error"})

\* the wait for an ACK gave up at its deadline after bytes that were not ACK
C37_Witness ==
  /\ model = "A" /\ rev = 1 /\ pc = "idle" /\ result = "error"
  /\ err = MsgAckTimedOut /\ seen >= 1

\* the identification gave up after its last attempt failed
RetriesExhausted ==
  /\ model = "B" /\ pc = "idle" /\ result = "error"
  /\ attempt = attempts /\ Len(tried) = attempts

\* C38: the 50-byte identification read of a retried attempt of the KT-8900
\* holds only bytes the radio sent in answer to that attempt's magic sequence:
\* the transport hands bytes out in the order they arrived, so no byte the
\* failed attempt left unread is waiting when the attempt starts
C38_NoLeftover ==
  [][ (/\ model = "B" /\ pc = "ident" /\ attempt > 1
       /\ Len(calls') >= 2 /\ calls'[1].bytes = MAGIC
       /\ calls'[2].c = "read" /\ calls'[2].ok) =>
        rx = <<>> ]_vars

\* the second attempt read the header of the extra-ID response the first
\* attempt timed out on as the start of its identification response, found the
\* fingerprint behind it and went on to the extra-ID frame
LeftoverAccepted ==
  /\ model = "B" /\ pc = "ident" /\ attempt = 3
  /\ tried = <<MsgTimeout, MsgBadAckExtra>>
  /\ Len(calls) = 4 /\ calls[2].c = "read" /\ calls[2].n = IDENT_LENGTH
  /\ SubSeq(calls[2].bytes, 1, 6) = SubSeq(BlockReplyB(devMem, ExtraFrame), 1, 5) \o <<ACK>>
  /\ calls[3].bytes = ExtraFrame

\* the second attempt read the third byte of the first attempt's upload
\* answer as the first byte of its identification response
LeftoverUploadByte ==
  /\ model = "B" /\ pc = "ident" /\ attempt = 3
  /\ tried = <<MsgUploadAck, MsgBadAckExtra>>
  /\ Len(calls) = 4 /\ calls[2].c = "read" /\ calls[2].ok
  /\ SubSeq(calls[2].bytes, 1, 2) = <<ACK, ACK>>

\* the offset i lies in a block this writeCodeplug has transmitted
InTransmitted(i) ==
  \E k \in 1..Len(Transmitted) :
    Transmitted[k] <= i /\ i < Transmitted[k] + BF888_BLOCK_SIZE

\* C39: every byte of the 16 channel records of Model-A that the
\* synthesize-and-verify scenario compares (0x0010 to 0x010F) lies in a block
\* that a writeCodeplug which wrote to the radio and returned has transmitted;
\* when the radio stores what it is sent and follows the protocol, the
\* comparison of the synthesized image with the image read back does not throw.
C39_ChannelsWritten ==
  (model = "A" /\ scenario.name = "synthWriteVerify" /\ ~dryRun) =>
    /\ (op = "write" /\ pc = "idle" /\ result = "ok") =>
         \A i \in VerifiedRegion : InTransmitted(i)
    /\ (fn = "verifyChannelBlocks" /\ devOps = 0) => ~fnOut.threw

\* the synthesized image was written, read back and compared
C39_Witness ==
  /\ model = "A" /\ scenario.name = "synthWriteVerify" /\ ~dryRun
  /\ fn = "verifyChannelBlocks" /\ devOps = 0 /\ scenario.passed
  /\ scenario.image # original

\* the synthesized image was written and the write returned
SynthesizedWritten ==
  /\ model = "A" /\ scenario.name = "synthWriteVerify" /\ ~dryRun
  /\ op = "write" /\ pc = "idle" /\ result = "ok" /\ Len(Transmitted) = 48

\* the flags byte and the trailer of channel record c of the image
RecordTail(image, c) ==
  SubSeq(image, 16 + 16 * c + 12 + 1, 16 + 16 * c + 16)

\* C40: synthesizeFullCodeplug returns an image as long as its input that
\* differs from it only at offsets of [0x0010, 0x0110); the input is after the
\* call the image the caller passed; the flags byte and the 3 trailer bytes
\* are the same in all 16 channel records of the image returned.
C40_FrameEffect ==
  [][ (fn' = "synthesizeFullCodeplug" /\ ~fnOut'.threw) =>
        LET base == fnArgs'[1]
            image == fnOut'.value
        IN  /\ base \in (IF fn = "none" THEN Bases ELSE {fnOut.value})
            /\ Len(image) = Len(base)
            /\ \A i \in 1..Len(base) :
                 image[i] # base[i] => (i - 1 >= 16 /\ i - 1 < 272)
            /\ \A c \in 0..15 :
                 /\ Len(RecordTail(image, c)) = 4
                 /\ RecordTail(image, c) = RecordTail(image, 0) ]_vars

\* an image longer than the memory was synthesized from a base whose records
\* had flags and trailers of their own, and differs from it
C40_Witness ==
  /\ fn = "synthesizeFullCodeplug" /\ ~fnOut.threw
  /\ fnArgs[1] \in Bases /\ Len(fnArgs[1]) > 992
  /\ fnOut.value # fnArgs[1]
  /\ RecordTail(fnArgs[1], 1) # RecordTail(fnArgs[1], 0)
  /\ RecordTail(fnOut.value, 0) = RecordTail(fnArgs[1], 0)
  /\ SubSeq(fnOut.value, 273, Len(fnOut.value)) = SubSeq(fnArgs[1], 273, Len(fnArgs[1]))

====
